---- MODULE Spec2Model ----
(***************************************************************************)
(* Model of the kaspa-mcp-server orchestration core:                       *)
(*   src/src/index.ts                         (KaspaMCPServer handlers)    *)
(*   src/packages/kaspa-wasm-sdk/src/KaspaSDK.ts   (KaspaSDK, RpcClient)    *)
(*   src/packages/kaspa-wasm-sdk/src/utxo/UtxoManager.ts (selectUTXOs)      *)
(*   src/packages/kaspa-wasm-sdk/src/utils/index.ts      (kasToSompi)       *)
(*                                                                         *)
(* JavaScript strings are modelled as sequences of one-character strings,  *)
(* so that trim, parseFloat and the decimal conversion are computed        *)
(* character by character as the code computes them.                       *)
(***************************************************************************)
EXTENDS Integers, Sequences, FiniteSets, TLC

VARIABLES
    sdkInstances,            \* index.ts: Map<string, KaspaSDK>, session id -> SDK object
    walletInstances,         \* index.ts: Map<string, any>, session id -> wallet object
    subscriptionInstances,   \* index.ts: Map<string, SubscriptionInfo>
    sdks,                    \* the KaspaSDK objects created so far
    wallets,                 \* the KaspaWallet objects created so far
    subs,                    \* the SubscriptionInfo objects created so far; each is
                             \* captured by the eventListener closure of the same index
    req,                     \* the request (or raw event) being answered
    res,                     \* its result
    engineCalls,             \* the Ledger Engine interactions made while handling it
    notifications,           \* the balance notifications emitted while handling it
    sendInfo,                \* the amounts and fees a send or fee request worked with
    releases,                \* the releases attempted while handling it, in order
    nsIn, nsOut, nsTwice, nsDone,          \* normalizeSessionId applied to an input
    selUtxos, selTarget, selFee, selOut,   \* selectUTXOs applied to an input
    feeUtxos, feeAmount, feeCost, feeMaxInputs, feeOut,
                             \* the fee of a send result computed for an input
    tasks,                   \* the handleConnect / handleCreateWallet calls suspended
                             \* at an await, with their local variables
    listenerCalls            \* history: the on, off and emit calls made on the
                             \* listener registry of an SDK, each with what it left

tables  == <<sdkInstances, walletInstances, subscriptionInstances>>
heap    == <<sdks, wallets, subs>>
obs     == <<req, res, engineCalls, notifications, sendInfo, releases>>
srvVars == <<tables, heap, obs>>
nsVars  == <<nsIn, nsOut, nsTwice, nsDone>>
selVars == <<selUtxos, selTarget, selFee, selOut>>
feeVars == <<feeUtxos, feeAmount, feeCost, feeMaxInputs, feeOut>>
vars    == <<srvVars, nsVars, selVars, feeVars, tasks, listenerCalls>>

----------------------------------------------------------------------------
(* Bounds *)

MaxIdLen  == 4      \* longest raw session identifier enumerated
MaxUtxos  == 3      \* longest UTXO list handed to selectUTXOs
MaxAmount == 3      \* largest UTXO amount
MaxTarget == 4      \* largest target amount
MaxFee    == 2      \* largest per-entry fee allowance
MaxSdks   == 2      \* KaspaSDK objects created in one run
MaxWallets == 2     \* KaspaWallet objects created in one run
MaxSubs   == 2      \* SubscriptionInfo objects created in one run
MaxTasks  == 2      \* handler calls that can be suspended at the same time
MaxCalls  == 4      \* on, off and emit calls made on one listener registry
MaxHandlers == 2    \* handler functions handed to on and off

----------------------------------------------------------------------------
(* Strings *)

\* The characters String.prototype.trim() strips (the two used here).
Whitespace == {" ", "\t"}

\* 'default'
Default == <<"d", "e", "f", "a", "u", "l", "t">>

\* The value of an argument that is absent from the request (undefined).
Undefined == <<"undefined">>

\* All strings over an alphabet up to a length.
Strings(alphabet, n) == UNION {[1..k -> alphabet] : k \in 0..n}

\* The string without its leading whitespace.
trimStart(s) ==
    IF \A i \in 1..Len(s) : s[i] \in Whitespace THEN <<>>
    ELSE LET first == CHOOSE i \in 1..Len(s) :
                          s[i] \notin Whitespace /\ \A j \in 1..(i - 1) : s[j] \in Whitespace
         IN SubSeq(s, first, Len(s))

\* The string without its trailing whitespace.
trimEnd(s) ==
    IF \A i \in 1..Len(s) : s[i] \in Whitespace THEN <<>>
    ELSE LET last == CHOOSE i \in 1..Len(s) :
                         s[i] \notin Whitespace /\ \A j \in (i + 1)..Len(s) : s[j] \in Whitespace
         IN SubSeq(s, 1, last)

\* String.prototype.trim()
trim(s) == trimEnd(trimStart(s))

\* JavaScript truthiness of an optional string: undefined and "" are falsy.
Truthy(s) == s # Undefined /\ s # <<>>

----------------------------------------------------------------------------
(* Numbers in strings: parseFloat, kaspa.kaspaToSompi, kasToSompi *)

DigitChars == {"0", "1", "2", "3", "4", "5", "6", "7", "8", "9"}

DigitValue(c) ==
    CASE c = "0" -> 0 [] c = "1" -> 1 [] c = "2" -> 2 [] c = "3" -> 3
      [] c = "4" -> 4 [] c = "5" -> 5 [] c = "6" -> 6 [] c = "7" -> 7
      [] c = "8" -> 8 [] c = "9" -> 9

\* The longest prefix of s made of digits.
TakeDigits(s) ==
    LET n == CHOOSE k \in 0..Len(s) :
                 /\ \A i \in 1..k : s[i] \in DigitChars
                 /\ k < Len(s) => s[k + 1] \notin DigitChars
    IN SubSeq(s, 1, n)

AllZero(digits) == \A i \in 1..Len(digits) : digits[i] = "0"

\* parseFloat(s): skips leading whitespace, reads an optional sign, digits, an
\* optional point and digits, and ignores whatever follows; NaN if it read no
\* digit. Only what the callers test is kept: NaN, the sign, zero or not.
\* (Exponents and "Infinity" need characters the inputs here do not use.)
ReadFloat(t) ==
    LET signed   == t # <<>> /\ Head(t) \in {"-", "+"}
        u        == IF signed THEN Tail(t) ELSE t
        intPart  == TakeDigits(u)
        rest     == SubSeq(u, Len(intPart) + 1, Len(u))
        fracPart == IF rest # <<>> /\ Head(rest) = "." THEN TakeDigits(Tail(rest)) ELSE <<>>
        digits   == intPart \o fracPart
    IN [nan      |-> digits = <<>>,
        negative |-> signed /\ Head(t) = "-",
        zero     |-> AllZero(digits)]

\* (CHOOSE r \in {F(v) : v \in {e}} : TRUE is F(e), e being evaluated once
\* before F is applied: the analogue of a const binding.)
parseFloat(s) == (CHOOSE r \in {ReadFloat(v) : v \in {trimStart(s)}} : TRUE)

isNaN(x) == x.nan

\* x < 0 for a parseFloat result (NaN and -0 are not less than 0).
LessThanZero(x) == ~x.nan /\ x.negative /\ ~x.zero

\* Decimal places of the smallest unit. The ledger has 8 (1 KAS = 100,000,000
\* sompi); the model keeps 1, so that every amount of the bounded inputs fits
\* the model checker's integers. No handler depends on the number of places.
DecimalPlaces == 1

RECURSIVE Pow10(_)
Pow10(n) == IF n = 0 THEN 1 ELSE 10 * Pow10(n - 1)

SompiPerKaspa == Pow10(DecimalPlaces)

\* The result of a conversion that threw, and of an absent number.
None == -1

\* An unsigned integer numeral: digits only, at least one.
RECURSIVE ParseUnsigned(_, _)
ParseUnsigned(s, acc) ==
    IF s = <<>> THEN acc
    ELSE IF Head(s) \notin DigitChars THEN None
    ELSE ParseUnsigned(Tail(s), 10 * acc + DigitValue(Head(s)))

ParseU64(s) == IF s = <<>> THEN None ELSE ParseUnsigned(s, 0)

IndexOfPoint(s) ==
    IF \E i \in 1..Len(s) : s[i] = "."
    THEN CHOOSE i \in 1..Len(s) : s[i] = "." /\ \A j \in 1..(i - 1) : s[j] # "."
    ELSE 0

\* kaspa.kaspaToSompi of the WASM module (the Engine's decimal conversion),
\* on the trimmed string: integer part and up to DecimalPlaces decimals, both
\* plain digit strings; None (undefined) for anything else.
ToSompi(amount) ==
    LET dot      == IndexOfPoint(amount)
        integer  == ParseU64(IF dot = 0 THEN amount ELSE SubSeq(amount, 1, dot - 1))
        decimal  == IF dot = 0 THEN <<>> ELSE SubSeq(amount, dot + 1, Len(amount))
        kept     == IF Len(decimal) <= DecimalPlaces THEN decimal
                    ELSE SubSeq(decimal, 1, DecimalPlaces)
        fraction == IF decimal = <<>> THEN 0
                    ELSE IF ParseU64(kept) = None THEN None
                    ELSE ParseU64(kept) * Pow10(DecimalPlaces - Len(kept))
    IN IF amount = <<>> \/ integer = None \/ fraction = None THEN None
       ELSE integer * SompiPerKaspa + fraction

kaspaToSompi(kasStr) == (CHOOSE r \in {ToSompi(v) : v \in {trim(kasStr)}} : TRUE)

\* isNaN(kasNum) || kasNum < 0
Rejected(kasNum) == isNaN(kasNum) \/ LessThanZero(kasNum)

\* kasToSompi after kas.trim(): the number is validated, ".0" is appended to
\* a string without a point, and the WASM conversion is called.
ConvertKas(kasStr) ==
    IF (CHOOSE r \in {Rejected(v) : v \in {parseFloat(kasStr)}} : TRUE) THEN None
    ELSE kaspaToSompi(IF IndexOfPoint(kasStr) = 0 THEN kasStr \o <<".", "0">> ELSE kasStr)

\* utils/index.ts: kasToSompi (None: it threw)
kasToSompi(kas) == (CHOOSE r \in {ConvertKas(v) : v \in {trim(kas)}} : TRUE)

----------------------------------------------------------------------------
(* Fees *)

\* The switch on feePriority: the multiplier as numerator and denominator.
feeMultiplier(feePriority) ==
    CASE feePriority = "low"    -> <<1, 2>>
      [] feePriority = "normal" -> <<1, 1>>
      [] feePriority = "high"   -> <<2, 1>>
      [] OTHER                  -> <<1, 1>>

TierFee_Floor(baseFee, feePriority) ==
    LET m == feeMultiplier(feePriority) IN (baseFee * m[1]) \div m[2]

\* BigInt(Math.ceil(Number(feeEstimate.baseFee) * feeMultiplier))
TierFee(baseFee, feePriority) ==
    LET m == feeMultiplier(feePriority)
    IN (baseFee * m[1] + m[2] - 1) \div m[2]

BackSolvePriorityFee_NoClamp(customTotalFee, baseFee) == customTotalFee - baseFee

\* KaspaSDK.sendTransactionWithCustomFee:
\* customTotalFee > baseFeeEstimate.baseFee ? customTotalFee - baseFee : 0
BackSolvePriorityFee(customTotalFee, baseFee) ==
    IF customTotalFee > baseFee THEN customTotalFee - baseFee ELSE 0

----------------------------------------------------------------------------
(* index.ts: KaspaMCPServer.normalizeSessionId *)

normalizeSessionId_NoTrim(sessionId) ==
    IF Truthy(sessionId) /\ Truthy(trim(sessionId)) THEN sessionId ELSE Default

\* return sessionId && sessionId.trim() ? sessionId.trim() : 'default';
normalizeSessionId(sessionId) ==
    IF Truthy(sessionId) /\ Truthy(trim(sessionId)) THEN trim(sessionId) ELSE Default

\* const { sessionId = 'default' } = args;   (no normalization)
DefaultParam(sessionId) ==
    IF sessionId = Undefined THEN Default ELSE sessionId

----------------------------------------------------------------------------
(* UtxoManager.ts: selectUTXOs *)

\* A UTXO entry: its position in the list handed in, and its amount.
Utxo(i, a) == [id |-> i, amount |-> a]

RECURSIVE SumAmounts(_)
SumAmounts(us) ==
    IF us = <<>> THEN 0 ELSE Head(us).amount + SumAmounts(Tail(us))

\* Insert u into a list sorted by amount descending, after every entry that
\* does not compare greater (Array.prototype.sort is stable).
RECURSIVE InsertDesc(_, _)
InsertDesc(sorted, u) ==
    IF sorted = <<>> THEN <<u>>
    ELSE IF u.amount - Head(sorted).amount > 0
         THEN <<u>> \o sorted
         ELSE <<Head(sorted)>> \o InsertDesc(Tail(sorted), u)

\* [...availableUtxos].sort((a, b) => Number(b.amount - a.amount))
RECURSIVE SortDesc(_)
SortDesc(us) ==
    IF us = <<>> THEN <<>>
    ELSE InsertDesc(SortDesc(SubSeq(us, 1, Len(us) - 1)), us[Len(us)])

NeededAfter_NoFee(totalNeeded, feePerUtxo) == totalNeeded

\* totalNeeded += feePerUtxo
NeededAfter(totalNeeded, feePerUtxo) == totalNeeded + feePerUtxo

ThresholdMet_Strict(totalAmount, totalNeeded) == totalAmount > totalNeeded

\* if (totalAmount >= totalNeeded) break
ThresholdMet(totalAmount, totalNeeded) == totalAmount >= totalNeeded

\* for (const utxo of sortedUtxos) { push; add; add fee; break when met }
RECURSIVE SelectLoop(_, _, _, _, _)
SelectLoop(sortedUtxos, selectedUtxos, totalAmount, totalNeeded, feePerUtxo) ==
    IF sortedUtxos = <<>>
    THEN [selectedUtxos |-> selectedUtxos, totalAmount |-> totalAmount,
          totalNeeded |-> totalNeeded]
    ELSE LET utxo   == Head(sortedUtxos)
             sel    == Append(selectedUtxos, utxo)
             total  == totalAmount + utxo.amount
             needed == NeededAfter(totalNeeded, feePerUtxo)
         IN IF ThresholdMet(total, needed)
            THEN [selectedUtxos |-> sel, totalAmount |-> total,
                  totalNeeded |-> needed]
            ELSE SelectLoop(Tail(sortedUtxos), sel, total, needed, feePerUtxo)

StillShort_OrEqual(totalAmount, totalNeeded) == totalAmount <= totalNeeded

\* if (totalAmount < totalNeeded) throw
StillShort(totalAmount, totalNeeded) == totalAmount < totalNeeded

selectUTXOs(availableUtxos, targetAmount, feePerUtxo) ==
    LET r == SelectLoop(SortDesc(availableUtxos), <<>>, 0, targetAmount, feePerUtxo)
    IN IF StillShort(r.totalAmount, r.totalNeeded)
       THEN [status |-> "InsufficientFunds", selectedUtxos |-> <<>>,
             totalAmount |-> r.totalAmount, change |-> 0]
       ELSE [status |-> "ok", selectedUtxos |-> r.selectedUtxos,
             totalAmount |-> r.totalAmount,
             change |-> r.totalAmount - r.totalNeeded]

----------------------------------------------------------------------------
(* JavaScript Map and Set helpers *)

EmptyMap == [k \in {} |-> 0]

MapSet(m, k, v) == [x \in DOMAIN m \cup {k} |-> IF x = k THEN v ELSE m[x]]

\* Map.clear in the place of Map.delete.
MapClear(m, k) == EmptyMap

MapDelete(m, k) == [x \in DOMAIN m \ {k} |-> m[x]]

\* Map.get; 0 stands for undefined (object identities start at 1).
MapGet(m, k) == IF k \in DOMAIN m THEN m[k] ELSE 0

\* The elements of a set of object identities in insertion (creation) order.
RECURSIVE SeqOfSet(_)
SeqOfSet(S) ==
    IF S = {} THEN <<>>
    ELSE LET m == CHOOSE x \in S : \A y \in S : x <= y
         IN <<m>> \o SeqOfSet(S \ {m})

RECURSIVE Repeat(_, _)
Repeat(n, s) == IF n = 0 THEN <<>> ELSE s \o Repeat(n - 1, s)

----------------------------------------------------------------------------
(* Networks, addresses, wallets *)

\* Two of the four values of NetworkType.
Networks == {"mainnet", "testnet-10"}

\* utils/index.ts: getAddressPrefix
getAddressPrefix(network) ==
    CASE network = "mainnet"    -> "kaspa"
      [] network = "testnet-10" -> "kaspatest"
      [] network = "devnet"     -> "kaspadev"
      [] network = "simnet"     -> "kaspasim"
      [] OTHER                  -> "kaspa"

\* An address is the encoding of a key for a network prefix; a key is named by
\* its key material and derivation index (material 0: a key of somebody else).
Address(prefix, material, index) ==
    [prefix |-> prefix, material |-> material, index |-> index]

NoAddress == Address("", 0, 0)

addrA == Address("kaspatest", 0, 1)
addrB == Address("kaspatest", 0, 2)
addrC == Address("kaspatest", 0, 3)

\* KaspaWallet: constructor. kind is "mnemonic" (imported or generated HD
\* wallet) or "privateKey" (single imported key).
NewWallet(network, kind, material) ==
    [networkType |-> network, kind |-> kind, material |-> material,
     disposed |-> FALSE]

\* Key material of a wallet generated by Mnemonic.random: unlike any other.
GeneratedMaterial(n) == 100 + n

\* KaspaWallet.getReceiveAddress: the key generator derives by index; a single
\* private key yields the same address for every index.
getReceiveAddress(wallet, index) ==
    IF wallet.kind = "mnemonic"
    THEN Address(getAddressPrefix(wallet.networkType), wallet.material, index)
    ELSE Address(getAddressPrefix(wallet.networkType), wallet.material, 0)

\* KaspaWallet.getReceiveAddress throws only for a wallet that has neither a
\* key generator nor a private key ('Wallet not initialized').
getReceiveAddressThrows(wallet, index) ==
    wallet.kind \notin {"mnemonic", "privateKey"}

\* for (let i = 0; i < n; i++) { try { push(wallet.getReceiveAddress(i)) }
\*                                catch { break } }
RECURSIVE ProbeReceiveAddresses(_, _, _)
ProbeReceiveAddresses(wallet, i, n) ==
    IF i >= n \/ getReceiveAddressThrows(wallet, i) THEN <<>>
    ELSE <<getReceiveAddress(wallet, i)>> \o ProbeReceiveAddresses(wallet, i + 1, n)

----------------------------------------------------------------------------
(* KaspaSDK objects *)

\* The SDK events index.ts registers its balance listener on.
Streams == {"transaction:incoming", "transaction:spent", "balance:changed"}

NoListeners == [e \in Streams |-> {}]

\* new KaspaSDK(network): eventListeners is the Map of Sets of handlers (a
\* handler is named by the SubscriptionInfo it captures); utxosChangedHandlers
\* counts the closures subscribeToAddresses has added to the RpcClient's
\* 'utxos-changed' handler set. The resources initialize() acquires: the RPC
\* connection, the UTXO processor and context of the UtxoManager, and the
\* UTXO processor and context of the SDK itself. owner is not a field of the
\* class: it names the session whose handleConnect created the object.
KaspaSDK(network) ==
    [networkType |-> network, rpcUrl |-> Undefined, owner |-> Undefined,
     initialized |-> FALSE, disposed |-> FALSE,
     eventListeners |-> NoListeners, utxosChangedHandlers |-> 0,
     rpcClient |-> "none", managerProcessor |-> "none", managerContext |-> "none",
     utxoProcessor |-> "none", utxoContext |-> "none"]

\* The step of initialize() that throws, if any.
InitFailures == {"none", "connect", "manager", "processor"}

\* UtxoManager.initialize: a processor is created and started (throwing for
\* failure = "manager"), then a context is created on it.
initializeManager(sdk, failure) ==
    IF failure = "manager" THEN [sdk EXCEPT !.managerProcessor = "created"]
    ELSE [sdk EXCEPT !.managerProcessor = "started", !.managerContext = "live"]

\* KaspaSDK.initialize: rpcClient.connect(), utxoManager.initialize(), the
\* SDK's own processor (start) and context, the processor events; what has
\* been acquired before a throwing step stays acquired.
initialize(sdk, failure) ==
    IF sdk.initialized THEN sdk
    ELSE IF failure = "connect" THEN [sdk EXCEPT !.rpcClient = "created"]
    ELSE IF failure = "manager"
    THEN initializeManager([sdk EXCEPT !.rpcClient = "connected"], failure)
    ELSE IF failure = "processor"
    THEN [initializeManager([sdk EXCEPT !.rpcClient = "connected"], failure)
             EXCEPT !.utxoProcessor = "created"]
    ELSE [initializeManager([sdk EXCEPT !.rpcClient = "connected"], failure)
             EXCEPT !.utxoProcessor = "started", !.utxoContext = "live",
                    !.initialized = TRUE]

\* new KaspaSDK(network); await sdk.initialize(rpcUrl)
NewSdk(network, failure) == initialize(KaspaSDK(network), failure)

\* The step of dispose() that throws, if it is reached.
DisposeFailures == {"none", "stop", "disconnect"}

\* A failure makes dispose() throw only if the failing step is reached.
disposeThrows(sdk, failure) ==
    \/ failure = "stop" /\ sdk.utxoProcessor # "none"
    \/ failure = "disconnect" /\ sdk.rpcClient = "connected"

\* KaspaSDK.dispose: the listeners are cleared; the SDK's processor is stopped
\* and freed; its context is freed; the RpcClient is disconnected and freed;
\* initialized is reset. A throwing step ends it. (The wallet step frees the
\* wallet every caller of dispose frees again right after it.)
dispose(sdk, failure) ==
    LET cleared == [sdk EXCEPT !.eventListeners = NoListeners, !.disposed = TRUE]
        stopped == IF cleared.utxoProcessor # "none"
                   THEN [cleared EXCEPT !.utxoProcessor = "released"] ELSE cleared
        freed   == IF stopped.utxoContext # "none"
                   THEN [stopped EXCEPT !.utxoContext = "released"] ELSE stopped
        closed  == IF freed.rpcClient # "none"
                   THEN [freed EXCEPT !.rpcClient = "released"] ELSE freed
    IN IF failure = "stop" /\ sdk.utxoProcessor # "none" THEN cleared
       ELSE IF failure = "disconnect" /\ sdk.rpcClient = "connected" THEN freed
       ELSE [closed EXCEPT !.initialized = FALSE]

\* The RPC connection of the SDK is open.
IsOpen(sdk) == sdk.rpcClient = "connected"

\* KaspaSDK.on
on(sdk, event, handler) ==
    [sdk EXCEPT !.eventListeners[event] = @ \cup {handler}]

\* An off that is handed a new function and finds nothing to delete.
off_OtherReference(sdk, event, handler) == sdk

\* KaspaSDK.off
off(sdk, event, handler) ==
    [sdk EXCEPT !.eventListeners[event] = @ \ {handler}]

----------------------------------------------------------------------------
(* KaspaWallet.getReceivePrivateKey and PrivateKey.toAddress *)

NoKey == [material |-> 0, index |-> 0]

\* KaspaWallet.getReceivePrivateKey: the key at an index (ok = FALSE: it threw).
\* A wallet made of a single private key has a key at index 0 only.
getReceivePrivateKey(wallet, index) ==
    IF wallet.kind = "mnemonic"
    THEN [ok |-> TRUE, key |-> [material |-> wallet.material, index |-> index]]
    ELSE IF index = 0
    THEN [ok |-> TRUE, key |-> [material |-> wallet.material, index |-> 0]]
    ELSE [ok |-> FALSE, key |-> NoKey]

\* privKey.toAddress(sdk.getNetworkType())
toAddress(key, network) == Address(getAddressPrefix(network), key.material, key.index)

----------------------------------------------------------------------------
(* The Engine as one request sees it, and what a send computed *)

\* hasUtxos: the sender address has unspent outputs; baseFee: the fee of the
\* provisional estimate, ceil(feerate * mass); balance: the sender's balance;
\* buildOk: the generator produced a transaction; submitOk: the node took it.
Engine(hasUtxos, baseFee, balance, buildOk, submitOk) ==
    [hasUtxos |-> hasUtxos, baseFee |-> baseFee, balance |-> balance,
     buildOk |-> buildOk, submitOk |-> submitOk]

\* The numbers a fee or send request worked with (None: not computed), the
\* receive indices whose key it asked the wallet for and the key it chose,
\* its fee arguments, the Engine calls of its fee step, and the fees in the
\* configuration it passed to sdk.sendTransaction (sent: it called it).
SendInfo(amount, amountSompi, feeKind, feePriority, baseFee, fee, generatorPriorityFee) ==
    [amount |-> amount, amountSompi |-> amountSompi, feeKind |-> feeKind,
     feePriority |-> feePriority, baseFee |-> baseFee, fee |-> fee,
     generatorPriorityFee |-> generatorPriorityFee,
     lowFee |-> None, normalFee |-> None, highFee |-> None,
     probed |-> <<>>, keyFound |-> FALSE, senderKey |-> NoKey,
     customFee |-> Undefined, priorityFee |-> Undefined, feeCalls |-> <<>>,
     sent |-> FALSE, config |-> [customTotalFee |-> None, priorityFee |-> None]]

NoSendInfo == SendInfo(Undefined, None, "none", "", None, None, None)

Outcome(status, text, calls, info) ==
    [status |-> status, text |-> text, calls |-> calls, info |-> info]

----------------------------------------------------------------------------
(* KaspaSDK.estimateFee, sendTransaction, sendTransactionWithCustomFee *)

\* KaspaSDK.estimateFee: queries the UTXOs of `from` (none: throws), asks the
\* node for the fee rate and builds a provisional transaction for its mass.
estimateFee(engine) ==
    IF ~engine.hasUtxos
    THEN [ok |-> FALSE, baseFee |-> None, calls |-> <<"getUTXOs">>]
    ELSE [ok |-> TRUE, baseFee |-> engine.baseFee,
          calls |-> <<"getUTXOs", "getFeeEstimate", "buildTransaction">>]

\* The common tail of both send paths: generator, signature, submission.
GenerateAndSubmit(engine, calls, baseFee, priorityFee) ==
    IF ~engine.buildOk
    THEN [ok |-> FALSE, text |-> "Failed to create transaction",
          calls |-> calls \o <<"buildWithGenerator">>, baseFee |-> baseFee,
          generatorPriorityFee |-> priorityFee]
    ELSE IF ~engine.submitOk
    THEN [ok |-> FALSE, text |-> "Submit failed",
          calls |-> calls \o <<"buildWithGenerator", "submitTransaction">>,
          baseFee |-> baseFee, generatorPriorityFee |-> priorityFee]
    ELSE [ok |-> TRUE, text |-> "",
          calls |-> calls \o <<"buildWithGenerator", "submitTransaction">>,
          baseFee |-> baseFee, generatorPriorityFee |-> priorityFee]

\* KaspaSDK.sendTransactionWithCustomFee
sendTransactionWithCustomFee(engine, customTotalFee) ==
    IF ~engine.hasUtxos
    THEN [ok |-> FALSE, text |-> "No UTXOs available for spending",
          calls |-> <<"getUTXOs">>, baseFee |-> None, generatorPriorityFee |-> None]
    ELSE LET baseFeeEstimate == estimateFee(engine)
             priorityFee == BackSolvePriorityFee(customTotalFee, baseFeeEstimate.baseFee)
         IN GenerateAndSubmit(engine, <<"getUTXOs">> \o baseFeeEstimate.calls,
                               baseFeeEstimate.baseFee, priorityFee)

\* KaspaSDK.sendTransaction (customTotalFee, priorityFee: None for undefined)
sendTransaction(engine, customTotalFee, priorityFee) ==
    IF customTotalFee # None
    THEN sendTransactionWithCustomFee(engine, customTotalFee)
    ELSE IF ~engine.hasUtxos
    THEN [ok |-> FALSE, text |-> "No UTXOs available for spending",
          calls |-> <<"getUTXOs">>, baseFee |-> None, generatorPriorityFee |-> None]
    ELSE GenerateAndSubmit(engine, <<"getUTXOs">>, None,
                           IF priorityFee = None THEN 0 ELSE priorityFee)

----------------------------------------------------------------------------
(* KaspaSDK.sendTransaction: the fee of the send result *)

\* A pending transaction of the generator: the entries it consumes and the
\* values of its outputs.
PendingTransaction(inputs, outputs) == [inputs |-> inputs, outputs |-> outputs]

RECURSIVE SumValues(_)
SumValues(outputs) ==
    IF outputs = <<>> THEN 0 ELSE Head(outputs) + SumValues(Tail(outputs))

\* The shortest prefix of the entries that covers `needed`, at most maxInputs
\* long (the entries that fit into one transaction).
RECURSIVE TakeEntries(_, _, _, _)
TakeEntries(utxos, taken, needed, maxInputs) ==
    IF utxos = <<>> \/ Len(taken) = maxInputs \/ (taken # <<>> /\ SumAmounts(taken) >= needed)
    THEN taken
    ELSE TakeEntries(Tail(utxos), Append(taken, Head(utxos)), needed, maxInputs)

\* TransactionBuilder.buildWithGenerator: kaspa.createTransactions consumes
\* entries in the order given until the payment and the fees (network fee plus
\* priority fee) are covered, and returns the change; when the entries of one
\* transaction do not cover them it first merges them into one output of a
\* batch transaction, and the payment follows in a later transaction. It
\* throws (<<>> here) when the entries cannot pay.
buildWithGenerator(utxos, amount, fees, maxInputs) ==
    LET taken  == TakeEntries(utxos, <<>>, amount + fees, maxInputs)
        change == SumAmounts(taken) - amount - fees
    IN IF SumAmounts(utxos) < amount + fees THEN <<>>
       ELSE IF change >= 0
       THEN <<PendingTransaction(taken, IF change > 0 THEN <<amount, change>> ELSE <<amount>>)>>
       ELSE IF SumAmounts(taken) <= fees THEN <<>>
       ELSE <<PendingTransaction(taken, <<SumAmounts(taken) - fees>>),
              PendingTransaction(SubSeq(utxos, Len(taken) + 1, Len(utxos)), <<amount>>)>>

NoSendResult ==
    [status |-> "none", fee |-> 0, inputAmount |-> 0, outputAmount |-> 0,
     consumed |-> 0, transactions |-> 0, submitted |-> <<>>]

\* A send that hands every pending transaction to rpcClient.submitTransaction.
SendResult_SubmitAll(utxos, pendingTransactions, submitOk) ==
    IF utxos = <<>> \/ pendingTransactions = <<>>
    THEN [NoSendResult EXCEPT !.status = "error"]
    ELSE [NoSendResult EXCEPT !.status = IF submitOk THEN "ok" ELSE "error",
                              !.transactions = Len(pendingTransactions),
                              !.submitted = [i \in 1..Len(pendingTransactions) |-> i]]

\* The result of sendTransaction and of sendTransactionWithCustomFee from the
\* UTXOs fetched and the pending transactions: the first one is signed and
\* submitted, totalInputAmount is reduced over the UTXOs fetched,
\* actualOutputAmount over the outputs of the signed transaction. inputAmount
\* and consumed describe the inputs of the signed transaction; submitted lists
\* the pending transactions (by position) handed to rpcClient.submitTransaction,
\* which is awaited once and whose throw (submitOk = FALSE) ends the send.
SendResult(utxos, pendingTransactions, submitOk) ==
    IF utxos = <<>> \/ pendingTransactions = <<>>
    THEN [NoSendResult EXCEPT !.status = "error"]
    ELSE IF ~submitOk
    THEN [NoSendResult EXCEPT !.status = "error",
                              !.transactions = Len(pendingTransactions),
                              !.submitted = <<1>>]
    ELSE LET signedTx == pendingTransactions[1]
             totalInputAmount == SumAmounts(utxos)
             actualOutputAmount == SumValues(signedTx.outputs)
         IN [status |-> "ok",
             fee |-> totalInputAmount - actualOutputAmount,
             inputAmount |-> SumAmounts(signedTx.inputs),
             outputAmount |-> actualOutputAmount,
             consumed |-> Len(signedTx.inputs),
             transactions |-> Len(pendingTransactions),
             submitted |-> <<1>>]

----------------------------------------------------------------------------
(* index.ts: the amount and fee arguments of the send and fee commands *)

\* A converted argument, or the error thrown for it.
Converted(sompi, text) ==
    IF sompi = None THEN [ok |-> FALSE, text |-> text, sompi |-> None]
    ELSE [ok |-> TRUE, text |-> "", sompi |-> sompi]

\* const amountStr = String(amount).trim(); isNaN(parseFloat(amountStr));
\* KaspaSDK.kasToSompi(amountStr)
ParseAmountStr(amountStr) ==
    IF isNaN(parseFloat(amountStr))
    THEN [ok |-> FALSE, text |-> "Invalid amount format", sompi |-> None]
    ELSE Converted(kasToSompi(amountStr), "Failed to convert amount")

\* The validation every amount goes through: !amount || amount === '0', then
\* the format and the conversion of the trimmed string.
ParseAmount(amount) ==
    IF ~Truthy(amount) \/ amount = <<"0">>
    THEN [ok |-> FALSE, text |-> "Invalid amount: must be greater than 0", sompi |-> None]
    ELSE (CHOOSE r \in {ParseAmountStr(v) : v \in {trim(amount)}} : TRUE)

\* isNaN(parseFloat(customFeeStr)) || parseFloat(customFeeStr) < 0, then
\* KaspaSDK.kasToSompi(customFeeStr)
ParseCustomFeeStr(customFeeStr) ==
    IF (CHOOSE r \in {Rejected(v) : v \in {parseFloat(customFeeStr)}} : TRUE)
    THEN [ok |-> FALSE, text |-> "Invalid custom fee", sompi |-> None]
    ELSE Converted(kasToSompi(customFeeStr), "Failed to convert custom fee")

\* The customFee branch: a non-negative number, converted to sompi.
ParseCustomFee(customFee) == (CHOOSE r \in {ParseCustomFeeStr(v) : v \in {trim(customFee)}} : TRUE)

\* The fee of the customFee branch, from the parsed argument.
CustomFeeResult(c) ==
    [ok |-> c.ok, text |-> c.text, calls |-> <<>>, kind |-> "custom", baseFee |-> None,
     fee |-> c.sompi]

\* The fee of the deprecated priorityFee branch, from the converted argument.
LegacyFeeResult(p) ==
    [ok |-> p # None, text |-> "Failed to convert priority fee", calls |-> <<>>,
     kind |-> "legacy", baseFee |-> None, fee |-> p]

\* The named-tier branch: estimate, then ceil(baseFee * multiplier).
TierFeeStep(engine, feePriority) ==
    IF ~estimateFee(engine).ok
    THEN [ok |-> FALSE, text |-> "No UTXOs available for estimation",
          calls |-> estimateFee(engine).calls, kind |-> "tier", baseFee |-> None,
          fee |-> None]
    ELSE [ok |-> TRUE, text |-> "", calls |-> estimateFee(engine).calls, kind |-> "tier",
          baseFee |-> estimateFee(engine).baseFee,
          fee |-> TierFee(estimateFee(engine).baseFee, feePriority)]

\* An absent feePriority, and the destructuring defaults feePriority = 'normal'
\* and priorityFee = '0'.
NoFeePriority == "undefined"

FeePriorityParam(feePriority) ==
    IF feePriority = NoFeePriority THEN "normal" ELSE feePriority

PriorityFeeParam(priorityFee) ==
    IF priorityFee = Undefined THEN <<"0">> ELSE priorityFee

\* The fee of handleSendTransaction: customFee, else the deprecated
\* priorityFee (default '0'), else the tier.
SendTransactionFee(engine, feePriority, customFee, priorityFee) ==
    IF Truthy(customFee)
    THEN (CHOOSE r \in {CustomFeeResult(v) : v \in {ParseCustomFee(customFee)}} : TRUE)
    ELSE IF Truthy(priorityFee) /\ priorityFee # <<"0">>
    THEN (CHOOSE r \in {LegacyFeeResult(v) : v \in {kasToSompi(trim(priorityFee))}} : TRUE)
    ELSE TierFeeStep(engine, feePriority)

\* The fee of handleSendFromWallet: customFee, else the tier.
SendFromWalletFee(engine, feePriority, customFee) ==
    IF Truthy(customFee)
    THEN (CHOOSE r \in {CustomFeeResult(v) : v \in {ParseCustomFee(customFee)}} : TRUE)
    ELSE TierFeeStep(engine, feePriority)

\* The search of handleSendTransaction for the key of `from` among the first
\* ten receive keys; it stops at the first index without a key. probed: the
\* indices passed to getReceivePrivateKey, in the order of the calls.
RECURSIVE FindSenderKey(_, _, _, _)
FindSenderKey(wallet, network, from, i) ==
    IF i >= 10 THEN [ok |-> FALSE, key |-> NoKey, probed |-> <<>>]
    ELSE LET privKey == getReceivePrivateKey(wallet, i)
         IN IF ~privKey.ok THEN [ok |-> FALSE, key |-> NoKey, probed |-> <<i>>]
            ELSE IF toAddress(privKey.key, network) = from
            THEN [ok |-> TRUE, key |-> privKey.key, probed |-> <<i>>]
            ELSE LET rest == FindSenderKey(wallet, network, from, i + 1)
                 IN [rest EXCEPT !.probed = <<i>> \o @]

----------------------------------------------------------------------------
(* index.ts: server state and the observation of one request *)

ServerState ==
    [sdkInstances |-> sdkInstances, walletInstances |-> walletInstances,
     sdks |-> sdks, wallets |-> wallets]

Request(op, sessionIdArg, key, sdk, address, addresses) ==
    [op |-> op, sessionId |-> sessionIdArg, key |-> key, sdk |-> sdk,
     address |-> address, addresses |-> addresses, network |-> "", rpcUrl |-> Undefined]

\* dropped: the addresses handed to sdk.unsubscribeFromAddresses; balances and
\* changes: the current balances a status queried and the changes it shows.
Result(status, text, addresses) ==
    [status |-> status, text |-> text, addresses |-> addresses, dropped |-> {},
     balances |-> EmptyMap, changes |-> EmptyMap]

NoRequest == Request("none", Undefined, Undefined, 0, NoAddress, {})
NoResult  == Result("none", "", {})

\* No request is being answered.
Idle == req.op = "none"

\* The addresses a session currently monitors (none without a record).
Monitored(key) ==
    IF key \in DOMAIN subscriptionInstances
    THEN subs[subscriptionInstances[key]].addresses
    ELSE {}

----------------------------------------------------------------------------
(* index.ts: handleConnect *)

\* One attempted release: of the connection, the wallet or the subscription
\* state of a session; ok = FALSE: it threw (and was logged).
Release(resource, session, id, ok) ==
    [resource |-> resource, session |-> session, id |-> id, ok |-> ok]

\* The Engine calls of dispose(): the disconnect, if that step is reached.
DisposeCalls(sdk, failure) ==
    IF sdk.rpcClient = "connected" /\ ~(failure = "stop" /\ sdk.utxoProcessor # "none")
    THEN <<"disconnect">> ELSE <<>>

\* The Engine calls of initialize(): the connect.
InitializeCalls == <<"connect">>

\* A test that tells connections to different RPC URLs apart.
AlreadyConnected_SameUrl(st, existingSdk, network, rpcUrl) ==
    /\ existingSdk # 0
    /\ st.sdks[existingSdk].networkType = network
    /\ st.sdks[existingSdk].rpcUrl = rpcUrl

\* existingSdk && existingSdk.getNetworkType() === network
AlreadyConnected(st, existingSdk, network, rpcUrl) ==
    /\ existingSdk # 0
    /\ st.sdks[existingSdk].networkType = network

\* The body of handleConnect for an already defaulted session id, as a function
\* of the server state: the new state, the outcome, the Engine calls and the
\* releases attempted.
Connect(st, sessionId, network, rpcUrl, initFailure, disposeFailure) ==
    LET existingSdk == MapGet(st.sdkInstances, sessionId)
        oldWallet   == MapGet(st.walletInstances, sessionId)
    IN IF AlreadyConnected(st, existingSdk, network, rpcUrl)
       THEN [st |-> st, status |-> "ok", text |-> "Already connected", calls |-> <<>>,
             releases |-> <<>>]
       ELSE LET
            \* dispose the existing SDK (a throw is logged) and delete its entry
            s1 == IF existingSdk # 0
                  THEN [st EXCEPT !.sdks[existingSdk] = dispose(@, disposeFailure),
                                  !.sdkInstances = MapDelete(@, sessionId)]
                  ELSE st
            r1 == IF existingSdk # 0
                  THEN <<Release("connection", sessionId, existingSdk,
                                 ~disposeThrows(st.sdks[existingSdk], disposeFailure))>>
                  ELSE <<>>
            \* dispose the existing wallet and delete its entry
            s2 == IF oldWallet # 0
                  THEN [s1 EXCEPT !.wallets[oldWallet].disposed = TRUE,
                                  !.walletInstances = MapDelete(@, sessionId)]
                  ELSE s1
            r2 == IF oldWallet # 0
                  THEN r1 \o <<Release("wallet", sessionId, oldWallet, TRUE)>>
                  ELSE r1
            \* new KaspaSDK(network); await sdk.initialize(rpcUrl)
            sdk == Len(s2.sdks) + 1
            s3 == [s2 EXCEPT !.sdks = Append(@, [NewSdk(network, initFailure)
                                                    EXCEPT !.owner = sessionId,
                                                           !.rpcUrl = rpcUrl])]
            s4 == [s3 EXCEPT !.sdkInstances = MapSet(@, sessionId, sdk)]
            \* sdk.createWallet({ mnemonic: existingWallet.mnemonic }): the
            \* mnemonic of a single-key wallet is undefined, and a wallet
            \* constructed without mnemonic and key is a generated one
            wallet == Len(s4.wallets) + 1
            material == IF st.wallets[oldWallet].kind = "mnemonic"
                        THEN st.wallets[oldWallet].material
                        ELSE GeneratedMaterial(wallet)
            s5 == IF oldWallet # 0
                  THEN [s4 EXCEPT !.wallets = Append(@, NewWallet(network, "mnemonic", material)),
                                  !.walletInstances = MapSet(@, sessionId, wallet)]
                  ELSE s4
            disposeCalls == IF existingSdk # 0
                            THEN DisposeCalls(st.sdks[existingSdk], disposeFailure)
                            ELSE <<>>
            IN IF initFailure = "none"
               THEN [st |-> s5, status |-> "ok", text |-> "Successfully connected",
                     calls |-> disposeCalls \o InitializeCalls, releases |-> r2]
               ELSE [st |-> s3, status |-> "InternalError",
                     text |-> "Failed to connect to Kaspa network",
                     calls |-> disposeCalls \o InitializeCalls, releases |-> r2]

\* UNCHANGED for the variables of the pure-function specifications.
PureUnchanged == UNCHANGED <<nsVars, selVars, feeVars, tasks, listenerCalls>>

handleConnect(sessionIdArg, network, rpcUrl, initFailure, disposeFailure) ==
    /\ Idle
    /\ \E sessionId \in {DefaultParam(sessionIdArg)} :
       \E r \in {Connect(ServerState, sessionId, network, rpcUrl, initFailure, disposeFailure)} :
          /\ Len(r.st.sdks) <= MaxSdks
          /\ Len(r.st.wallets) <= MaxWallets
          /\ sdkInstances' = r.st.sdkInstances
          /\ walletInstances' = r.st.walletInstances
          /\ sdks' = r.st.sdks
          /\ wallets' = r.st.wallets
          /\ req' = [Request("kaspa_connect", sessionIdArg, sessionId, 0, NoAddress, {})
                        EXCEPT !.network = network, !.rpcUrl = rpcUrl]
          /\ res' = Result(r.status, r.text, {})
          /\ engineCalls' = r.calls
          /\ releases' = r.releases
    /\ notifications' = <<>>
    /\ sendInfo' = NoSendInfo
    /\ UNCHANGED <<subscriptionInstances, subs>>
    /\ PureUnchanged

----------------------------------------------------------------------------
(* index.ts: handleCreateWallet *)

\* kind: "generate" (no credentials), "mnemonic" or "privateKey" (import);
\* walletOk: whether the KaspaWallet constructor accepts the credentials.
\* The wallet part of handleCreateWallet, on the state s0 the auto-connect
\* left: the existing wallet is disposed and its entry deleted, then the new
\* wallet is constructed and stored.
CreateWallet(s0, sessionId, kind, material, walletOk) ==
    LET sdk == MapGet(s0.sdkInstances, sessionId)
        oldWallet == MapGet(s0.walletInstances, sessionId)
        s1 == IF oldWallet # 0
              THEN [s0 EXCEPT !.wallets[oldWallet].disposed = TRUE,
                              !.walletInstances = MapDelete(@, sessionId)]
              ELSE s0
        released == IF oldWallet # 0
                    THEN <<Release("wallet", sessionId, oldWallet, TRUE)>> ELSE <<>>
        wallet == Len(s0.wallets) + 1
        new == IF kind = "generate"
               THEN NewWallet(s0.sdks[sdk].networkType, "mnemonic", GeneratedMaterial(wallet))
               ELSE NewWallet(s0.sdks[sdk].networkType, kind, material)
    IN IF sdk = 0
       THEN [st |-> s0, status |-> "InvalidRequest",
             text |-> "No active connection and failed to auto-connect",
             releases |-> <<>>]
       ELSE IF ~walletOk
       THEN [st |-> s1, status |-> "InternalError", text |-> "Failed to create wallet",
             releases |-> released]
       ELSE [st |-> [s1 EXCEPT !.wallets = Append(@, new),
                               !.walletInstances = MapSet(@, sessionId, wallet)],
             status |-> "ok", text |-> "Wallet created successfully",
             releases |-> released]

handleCreateWallet(sessionIdArg, kind, material, initFailure, walletOk) ==
    /\ Idle
    /\ \E sessionId \in {normalizeSessionId(sessionIdArg)} :
       \* auto-connect to testnet-10 if no connection exists
       \E c \in {IF MapGet(sdkInstances, sessionId) = 0
                 THEN Connect(ServerState, sessionId, "testnet-10", Undefined, initFailure, "none")
                 ELSE [st |-> ServerState, status |-> "ok", text |-> "", calls |-> <<>>,
                       releases |-> <<>>]} :
       \E out \in {CreateWallet(c.st, sessionId, kind, material, walletOk)} :
          /\ Len(out.st.sdks) <= MaxSdks
          /\ Len(out.st.wallets) <= MaxWallets
          /\ sdkInstances' = out.st.sdkInstances
          /\ walletInstances' = out.st.walletInstances
          /\ sdks' = out.st.sdks
          /\ wallets' = out.st.wallets
          /\ req' = Request("kaspa_create_wallet", sessionIdArg, sessionId, 0, NoAddress, {})
          /\ res' = Result(out.status, out.text, {})
          /\ engineCalls' = c.calls
          /\ releases' = c.releases \o out.releases
    /\ notifications' = <<>>
    /\ sendInfo' = NoSendInfo
    /\ UNCHANGED <<subscriptionInstances, subs>>
    /\ PureUnchanged

----------------------------------------------------------------------------
(* index.ts: handleSetupPreconfiguredWallet *)

\* Configuration.getWalletCredentials(): what the environment holds, a
\* mnemonic (it wins when both are set), a private key or neither.
NoCredentials == [kind |-> "none", material |-> 0]

\* The wallet part of handleSetupPreconfiguredWallet, on the state s0 the
\* auto-connect left: without credentials it throws at once; otherwise the
\* existing wallet is disposed and its entry deleted, then the wallet is
\* constructed from the credentials and stored.
SetupPreconfiguredWallet(s0, sessionId, credentials, walletOk) ==
    LET sdk == MapGet(s0.sdkInstances, sessionId)
        oldWallet == MapGet(s0.walletInstances, sessionId)
        s1 == IF oldWallet # 0
              THEN [s0 EXCEPT !.wallets[oldWallet].disposed = TRUE,
                              !.walletInstances = MapDelete(@, sessionId)]
              ELSE s0
        released == IF oldWallet # 0
                    THEN <<Release("wallet", sessionId, oldWallet, TRUE)>> ELSE <<>>
        wallet == Len(s0.wallets) + 1
        new == NewWallet(s0.sdks[sdk].networkType, credentials.kind, credentials.material)
    IN IF sdk = 0
       THEN [st |-> s0, status |-> "InvalidRequest",
             text |-> "No active connection found", releases |-> <<>>]
       ELSE IF credentials.kind = "none"
       THEN [st |-> s0, status |-> "InternalError",
             text |-> "Failed to setup preconfigured wallet", releases |-> <<>>]
       ELSE IF ~walletOk
       THEN [st |-> s1, status |-> "InternalError",
             text |-> "Failed to setup preconfigured wallet", releases |-> released]
       ELSE [st |-> [s1 EXCEPT !.wallets = Append(@, new),
                               !.walletInstances = MapSet(@, sessionId, wallet)],
             status |-> "ok", text |-> "Preconfigured wallet setup successfully",
             releases |-> released]

handleSetupPreconfiguredWallet(sessionIdArg, defaultNetwork, credentials, initFailure, walletOk) ==
    /\ Idle
    /\ \E sessionId \in {normalizeSessionId(sessionIdArg)} :
       \* auto-connect to the default network if no connection exists
       \E c \in {IF MapGet(sdkInstances, sessionId) = 0
                 THEN Connect(ServerState, sessionId, defaultNetwork, Undefined, initFailure, "none")
                 ELSE [st |-> ServerState, status |-> "ok", text |-> "", calls |-> <<>>,
                       releases |-> <<>>]} :
       \E out \in {SetupPreconfiguredWallet(c.st, sessionId, credentials, walletOk)} :
          /\ Len(out.st.sdks) <= MaxSdks
          /\ Len(out.st.wallets) <= MaxWallets
          /\ sdkInstances' = out.st.sdkInstances
          /\ walletInstances' = out.st.walletInstances
          /\ sdks' = out.st.sdks
          /\ wallets' = out.st.wallets
          /\ req' = Request("kaspa_setup_preconfigured_wallet", sessionIdArg, sessionId, 0,
                            NoAddress, {})
          /\ res' = Result(out.status, out.text, {})
          /\ engineCalls' = c.calls
          /\ releases' = c.releases \o out.releases
    /\ notifications' = <<>>
    /\ sendInfo' = NoSendInfo
    /\ UNCHANGED <<subscriptionInstances, subs>>
    /\ PureUnchanged

----------------------------------------------------------------------------
(* index.ts: handleConnect and handleCreateWallet, one await at a time *)

\* The local variables of a call: where it is suspended (pc), the session id
\* it uses, the existingSdk and the wallet it read on entry, the SDK it made.
NoTask ==
    [pc |-> "idle", op |-> "none", key |-> Undefined, network |-> "",
     existingSdk |-> 0, existingWallet |-> 0, sdk |-> 0, status |-> "none"]

\* A handleConnect that deletes the registry entry and leaves the wallet of
\* the session where it is.
BeforeInitialize_KeepWallet(st, sessionId, network, existingSdk) ==
    LET s1 == IF existingSdk # 0
              THEN [st EXCEPT !.sdkInstances = MapDelete(@, sessionId)] ELSE st
    IN [s1 EXCEPT !.sdks = Append(@, [KaspaSDK(network) EXCEPT !.owner = sessionId])]

\* handleConnect between `await existingSdk.dispose()` and `await
\* sdk.initialize()`: the registry entry is deleted (when an SDK was read on
\* entry), the wallet the table holds now is disposed and deleted, the new
\* SDK is constructed.
BeforeInitialize(st, sessionId, network, existingSdk) ==
    LET oldWallet == MapGet(st.walletInstances, sessionId)
        s1 == IF existingSdk # 0
              THEN [st EXCEPT !.sdkInstances = MapDelete(@, sessionId)] ELSE st
        s2 == IF oldWallet # 0
              THEN [s1 EXCEPT !.wallets[oldWallet].disposed = TRUE,
                              !.walletInstances = MapDelete(@, sessionId)]
              ELSE s1
    IN [s2 EXCEPT !.sdks = Append(@, [KaspaSDK(network) EXCEPT !.owner = sessionId])]

\* handleConnect after `await sdk.initialize()` returned: the SDK is stored
\* and the wallet read on entry is recreated.
AfterInitialize(st, sessionId, network, sdk, existingWallet) ==
    LET s4 == [st EXCEPT !.sdkInstances = MapSet(@, sessionId, sdk)]
        wallet == Len(st.wallets) + 1
        material == IF st.wallets[existingWallet].kind = "mnemonic"
                    THEN st.wallets[existingWallet].material
                    ELSE GeneratedMaterial(wallet)
    IN IF existingWallet # 0
       THEN [s4 EXCEPT !.wallets = Append(@, NewWallet(network, "mnemonic", material)),
                       !.walletInstances = MapSet(@, sessionId, wallet)]
       ELSE s4

\* The server state a step leaves.
SetServerState(st) ==
    /\ sdkInstances' = st.sdkInstances
    /\ walletInstances' = st.walletInstances
    /\ sdks' = st.sdks
    /\ wallets' = st.wallets

\* A step of a suspended call answers no request.
TaskUnchanged ==
    UNCHANGED <<subscriptionInstances, subs, obs, nsVars, selVars, feeVars, listenerCalls>>

\* handleConnect is entered (op: by the dispatcher, or by the auto-connect of
\* handleCreateWallet) and runs to its first await.
EnterConnect(t, op, sessionId, network) ==
    LET existingSdk == MapGet(sdkInstances, sessionId)
        call == [NoTask EXCEPT !.op = op, !.key = sessionId, !.network = network,
                               !.existingSdk = existingSdk,
                               !.existingWallet = MapGet(walletInstances, sessionId)]
    IN IF existingSdk # 0 /\ sdks[existingSdk].networkType = network
       THEN /\ tasks' = [tasks EXCEPT ![t] = [call EXCEPT !.pc = "done", !.status = "ok"]]
            /\ UNCHANGED <<sdkInstances, walletInstances, sdks, wallets>>
       ELSE IF existingSdk # 0
       THEN \* await existingSdk.dispose(): it clears the listeners at once
            /\ tasks' = [tasks EXCEPT ![t] = [call EXCEPT !.pc = "disposing"]]
            /\ sdks' = [sdks EXCEPT ![existingSdk].eventListeners = NoListeners,
                                    ![existingSdk].disposed = TRUE]
            /\ UNCHANGED <<sdkInstances, walletInstances, wallets>>
       ELSE \* await sdk.initialize(rpcUrl)
            /\ Len(sdks) < MaxSdks
            /\ tasks' = [tasks EXCEPT ![t] = [call EXCEPT !.pc = "initializing",
                                                          !.sdk = Len(sdks) + 1]]
            /\ SetServerState(BeforeInitialize(ServerState, sessionId, network, 0))

\* kaspa_connect arrives.
ConnectStart(t, sessionIdArg, network) ==
    /\ tasks[t].pc = "idle"
    /\ EnterConnect(t, "kaspa_connect", DefaultParam(sessionIdArg), network)
    /\ TaskUnchanged

\* existingSdk.dispose() has settled (a throw is logged).
ConnectDisposed(t, disposeFailure) ==
    /\ tasks[t].pc = "disposing"
    /\ Len(sdks) < MaxSdks
    /\ \E st \in {[ServerState EXCEPT !.sdks[tasks[t].existingSdk] = dispose(@, disposeFailure)]} :
          SetServerState(BeforeInitialize(st, tasks[t].key, tasks[t].network,
                                          tasks[t].existingSdk))
    /\ tasks' = [tasks EXCEPT ![t].pc = "initializing", ![t].sdk = Len(sdks) + 1]
    /\ TaskUnchanged

\* sdk.initialize() has settled: a throw leaves handleConnect with an
\* InternalError (which the auto-connect turns into an InvalidRequest).
ConnectInitialized(t, initFailure) ==
    /\ tasks[t].pc = "initializing"
    /\ \E st \in {[ServerState EXCEPT !.sdks[tasks[t].sdk] = initialize(@, initFailure)]} :
          IF initFailure # "none"
          THEN /\ SetServerState(st)
               /\ tasks' = [tasks EXCEPT ![t].pc = "done",
                                         ![t].status = IF tasks[t].op = "kaspa_connect"
                                                       THEN "InternalError"
                                                       ELSE "InvalidRequest"]
          ELSE /\ Len(wallets) + (IF tasks[t].existingWallet # 0 THEN 1 ELSE 0) <= MaxWallets
               /\ SetServerState(AfterInitialize(st, tasks[t].key, tasks[t].network,
                                                 tasks[t].sdk, tasks[t].existingWallet))
               /\ tasks' = IF tasks[t].op = "kaspa_connect"
                           THEN [tasks EXCEPT ![t].pc = "done", ![t].status = "ok"]
                           ELSE [tasks EXCEPT ![t].pc = "connected"]
    /\ TaskUnchanged

\* kaspa_create_wallet arrives: with a connection it runs to its end, without
\* one it awaits handleConnect for testnet-10.
CreateWalletStart(t, sessionIdArg) ==
    /\ tasks[t].pc = "idle"
    /\ \E sessionId \in {normalizeSessionId(sessionIdArg)} :
          IF MapGet(sdkInstances, sessionId) # 0
          THEN \E out \in {CreateWallet(ServerState, sessionId, "generate", 0, TRUE)} :
                  /\ Len(out.st.wallets) <= MaxWallets
                  /\ SetServerState(out.st)
                  /\ tasks' = [tasks EXCEPT ![t] =
                                  [NoTask EXCEPT !.pc = "done", !.op = "kaspa_create_wallet",
                                                 !.key = sessionId, !.status = out.status]]
          ELSE EnterConnect(t, "kaspa_create_wallet", sessionId, "testnet-10")
    /\ TaskUnchanged

\* The awaited handleConnect has returned: sdkInstances is read again and the
\* wallet is created.
CreateWalletConnected(t) ==
    /\ tasks[t].pc = "connected"
    /\ tasks[t].op = "kaspa_create_wallet"
    /\ \E out \in {CreateWallet(ServerState, tasks[t].key, "generate", 0, TRUE)} :
          /\ Len(out.st.wallets) <= MaxWallets
          /\ SetServerState(out.st)
          /\ tasks' = [tasks EXCEPT ![t].pc = "done", ![t].status = out.status]
    /\ TaskUnchanged

\* kaspa_setup_preconfigured_wallet arrives: with a connection it runs to its
\* end, without one it awaits handleConnect for the default network.
SetupWalletStart(t, sessionIdArg, defaultNetwork, credentials, walletOk) ==
    /\ tasks[t].pc = "idle"
    /\ \E sessionId \in {normalizeSessionId(sessionIdArg)} :
          IF MapGet(sdkInstances, sessionId) # 0
          THEN \E out \in {SetupPreconfiguredWallet(ServerState, sessionId, credentials,
                                                    walletOk)} :
                  /\ Len(out.st.wallets) <= MaxWallets
                  /\ SetServerState(out.st)
                  /\ tasks' = [tasks EXCEPT ![t] =
                                  [NoTask EXCEPT !.pc = "done",
                                                 !.op = "kaspa_setup_preconfigured_wallet",
                                                 !.key = sessionId, !.status = out.status]]
          ELSE EnterConnect(t, "kaspa_setup_preconfigured_wallet", sessionId, defaultNetwork)
    /\ TaskUnchanged

\* The awaited handleConnect has returned: sdkInstances is read again, the
\* credentials are looked up and the wallet is created.
SetupWalletConnected(t, credentials, walletOk) ==
    /\ tasks[t].pc = "connected"
    /\ tasks[t].op = "kaspa_setup_preconfigured_wallet"
    /\ \E out \in {SetupPreconfiguredWallet(ServerState, tasks[t].key, credentials, walletOk)} :
          /\ Len(out.st.wallets) <= MaxWallets
          /\ SetServerState(out.st)
          /\ tasks' = [tasks EXCEPT ![t].pc = "done", ![t].status = out.status]
    /\ TaskUnchanged

\* The result of the call has been returned to the caller.
TaskReturn(t) ==
    /\ tasks[t].pc = "done"
    /\ tasks' = [tasks EXCEPT ![t] = NoTask]
    /\ UNCHANGED <<tables, heap>>
    /\ TaskUnchanged

----------------------------------------------------------------------------
(* index.ts: handleGetBalance *)

\* A handler without the test of the connection: the query is made in the
\* try block whatever the table returned.
handleGetBalance_Unchecked(sessionIdArg, address, queryOk) ==
    /\ Idle
    /\ LET sessionId == DefaultParam(sessionIdArg)
           sdk == MapGet(sdkInstances, sessionId)
       IN /\ req' = Request("kaspa_get_balance", sessionIdArg, sessionId, sdk, address, {})
          /\ res' = IF sdk # 0 /\ queryOk THEN Result("ok", "Balance", {})
                    ELSE Result("InternalError", "Failed to get balance", {})
          /\ engineCalls' = IF sdk # 0 THEN <<"getBalance">> ELSE <<>>
    /\ notifications' = <<>>
    /\ sendInfo' = NoSendInfo
    /\ releases' = <<>>
    /\ UNCHANGED <<tables, heap>>
    /\ PureUnchanged

handleGetBalance(sessionIdArg, address, queryOk) ==
    /\ Idle
    /\ LET sessionId == DefaultParam(sessionIdArg)
           sdk == MapGet(sdkInstances, sessionId)
       IN /\ req' = Request("kaspa_get_balance", sessionIdArg, sessionId, sdk, address, {})
          /\ IF sdk = 0
             THEN /\ res' = Result("InvalidRequest", "No active connection", {})
                  /\ engineCalls' = <<>>
             ELSE /\ res' = IF queryOk THEN Result("ok", "Balance", {})
                            ELSE Result("InternalError", "Failed to get balance", {})
                  /\ engineCalls' = <<"getBalance">>
    /\ notifications' = <<>>
    /\ sendInfo' = NoSendInfo
    /\ releases' = <<>>
    /\ UNCHANGED <<tables, heap>>
    /\ PureUnchanged

----------------------------------------------------------------------------
(* index.ts: handleSubscribeBalance *)

\* A reply of the Engine to a balance query: a balance, or a failure.
QueryFailed == -1

\* A subscriptionInfo that stores zero for every address.
NewSubscriptionInfo_ZeroOnly(sessionId, addressesToMonitor, includeTransactions, replies) ==
    [sessionId |-> sessionId,
     addresses |-> addressesToMonitor,
     includeTransactions |-> includeTransactions,
     lastBalances |-> [a \in addressesToMonitor |-> 0]]

\* A subscriptionInfo whose catch branch stores nothing.
NewSubscriptionInfo_NoDefault(sessionId, addressesToMonitor, includeTransactions, replies) ==
    [sessionId |-> sessionId,
     addresses |-> addressesToMonitor,
     includeTransactions |-> includeTransactions,
     lastBalances |-> [a \in {b \in addressesToMonitor : replies[b] # QueryFailed} |->
                          replies[a]]]

\* const subscriptionInfo = { addresses: new Set(addressesToMonitor),
\*                            includeTransactions, lastBalances: new Map() }
\* with lastBalances filled from the replies (0 where the query failed).
NewSubscriptionInfo(sessionId, addressesToMonitor, includeTransactions, replies) ==
    [sessionId |-> sessionId,
     addresses |-> addressesToMonitor,
     includeTransactions |-> includeTransactions,
     lastBalances |-> [a \in addressesToMonitor |->
                          IF replies[a] = QueryFailed THEN 0 ELSE replies[a]]]

\* The addresses handleSubscribeBalance monitors: the ones given, else the
\* wallet's first five receive addresses.
AddressesToMonitor(sessionId, addresses) ==
    LET wallet == MapGet(walletInstances, sessionId)
        probed == ProbeReceiveAddresses(wallets[wallet], 0, 5)
    IN IF addresses # {} THEN addresses
       ELSE IF wallet # 0
       THEN {probed[i] : i \in 1..Len(probed)}
       ELSE {}

\* The length of the addressesToMonitor array: one balance query each.
MonitorCount(sessionId, addresses) ==
    IF addresses # {} THEN Cardinality(addresses)
    ELSE IF MapGet(walletInstances, sessionId) # 0
    THEN Len(ProbeReceiveAddresses(wallets[MapGet(walletInstances, sessionId)], 0, 5))
    ELSE 0

\* sdk.on(...) for the three streams
RegisterListener(sdk, listener) ==
    on(on(on(sdk, "transaction:incoming", listener),
          "transaction:spent", listener),
       "balance:changed", listener)

\* KaspaSDK.subscribeToAddresses: every call adds one more 'utxos-changed'
\* closure to the RpcClient.
subscribeToAddresses(sdk) ==
    [sdk EXCEPT !.utxosChangedHandlers = @ + 1]

\* A handler that registers its listener before it awaits the Engine.
FailedSubscribe_Registered(sdk, listener) == RegisterListener(sdk, listener)

\* The SDK a throwing `await sdk.subscribeToAddresses(...)` leaves: the
\* Engine's subscribe is awaited before any RPC listener is added, and the
\* throw skips the sdk.on calls of the handler.
FailedSubscribe(sdk, listener) == sdk

handleSubscribeBalance(sessionIdArg, addresses, includeTransactions, replies, subscribeOk) ==
    /\ Idle
    /\ LET sessionId == DefaultParam(sessionIdArg)
           sdk == MapGet(sdkInstances, sessionId)
           wallet == MapGet(walletInstances, sessionId)
           addressesToMonitor == AddressesToMonitor(sessionId, addresses)
           listener == Len(subs) + 1
           queries == [i \in 1..MonitorCount(sessionId, addresses) |-> "getBalance"]
       IN /\ req' = Request("kaspa_subscribe_balance", sessionIdArg, sessionId, sdk,
                            NoAddress, addresses)
          /\ IF sdk = 0
             THEN /\ res' = Result("InvalidRequest", "No active connection", {})
                  /\ engineCalls' = <<>>
                  /\ UNCHANGED <<subscriptionInstances, sdks, subs>>
             ELSE IF addresses = {} /\ wallet = 0
             THEN /\ res' = Result("InternalError", "No addresses specified and no wallet available", {})
                  /\ engineCalls' = <<>>
                  /\ UNCHANGED <<subscriptionInstances, sdks, subs>>
             ELSE IF ~subscribeOk
             THEN /\ res' = Result("InternalError", "Failed to subscribe to balance changes", {})
                  /\ engineCalls' = queries \o <<"subscribeUtxosChanged">>
                  /\ sdks' = [sdks EXCEPT ![sdk] = FailedSubscribe(@, listener)]
                  /\ UNCHANGED <<subscriptionInstances, subs>>
             ELSE /\ Len(subs) < MaxSubs
                  /\ subs' = Append(subs, NewSubscriptionInfo(sessionId, addressesToMonitor,
                                                              includeTransactions, replies))
                  /\ sdks' = [sdks EXCEPT ![sdk] =
                                 RegisterListener(subscribeToAddresses(@), listener)]
                  /\ subscriptionInstances' = MapSet(subscriptionInstances, sessionId, listener)
                  /\ res' = [Result("ok", "Subscribed to balance changes", addressesToMonitor)
                                EXCEPT !.balances =
                                    [a \in {b \in addressesToMonitor : replies[b] # QueryFailed}
                                        |-> replies[a]]]
                  /\ engineCalls' = queries \o <<"subscribeUtxosChanged">>
    /\ notifications' = <<>>
    /\ sendInfo' = NoSendInfo
    /\ releases' = <<>>
    /\ UNCHANGED <<sdkInstances, walletInstances, wallets>>
    /\ PureUnchanged

----------------------------------------------------------------------------
(* index.ts: handleUnsubscribeBalance *)

\* sdk.off(...) for the three streams
UnregisterListener(sdk, listener) ==
    off(off(off(sdk, "transaction:incoming", listener),
            "transaction:spent", listener),
        "balance:changed", listener)

\* An unsubscribe that does not intersect with the monitored set.
AddressesToUnsubscribe_NoFilter(addresses, monitored) ==
    IF addresses # {} THEN addresses ELSE monitored

\* addresses.filter(addr => subscription.addresses.has(addr)), or
\* Array.from(subscription.addresses) without addresses.
AddressesToUnsubscribe(addresses, monitored) ==
    IF addresses # {} THEN {a \in addresses : a \in monitored} ELSE monitored

\* addresses = {} stands for an absent or empty address list.
handleUnsubscribeBalance(sessionIdArg, addresses, unsubscribeOk) ==
    /\ Idle
    /\ LET sessionId == DefaultParam(sessionIdArg)
           sdk == MapGet(sdkInstances, sessionId)
           subscription == MapGet(subscriptionInstances, sessionId)
           addressesToUnsubscribe ==
               AddressesToUnsubscribe(addresses, subs[subscription].addresses)
           remaining == subs[subscription].addresses \ addressesToUnsubscribe
           removed == [subs EXCEPT
                          ![subscription].addresses = remaining,
                          ![subscription].lastBalances = [a \in remaining |-> @[a]]]
       IN /\ req' = Request("kaspa_unsubscribe_balance", sessionIdArg, sessionId, sdk,
                            NoAddress, addresses)
          /\ IF sdk = 0
             THEN /\ res' = Result("InvalidRequest", "No active connection", {})
                  /\ engineCalls' = <<>>
                  /\ UNCHANGED <<subscriptionInstances, sdks, subs>>
             ELSE IF subscription = 0
             THEN /\ res' = Result("ok", "No active subscription found", {})
                  /\ engineCalls' = <<>>
                  /\ UNCHANGED <<subscriptionInstances, sdks, subs>>
             ELSE IF addressesToUnsubscribe = {}
             THEN /\ res' = Result("ok", "No matching addresses found in subscription", {})
                  /\ engineCalls' = <<>>
                  /\ UNCHANGED <<subscriptionInstances, sdks, subs>>
             ELSE IF ~unsubscribeOk
             THEN \* the addresses are removed before the Engine call throws
                  /\ subs' = removed
                  /\ res' = [Result("InternalError", "Failed to unsubscribe", {})
                                EXCEPT !.dropped = addressesToUnsubscribe]
                  /\ engineCalls' = <<"unsubscribeUtxosChanged">>
                  /\ UNCHANGED <<subscriptionInstances, sdks>>
             ELSE /\ subs' = removed
                  /\ engineCalls' = <<"unsubscribeUtxosChanged">>
                  /\ res' = [Result("ok", "Unsubscribed", addressesToUnsubscribe)
                                EXCEPT !.dropped = addressesToUnsubscribe]
                  /\ IF remaining = {}
                     THEN /\ sdks' = [sdks EXCEPT ![sdk] = UnregisterListener(@, subscription)]
                          /\ subscriptionInstances' = MapDelete(subscriptionInstances, sessionId)
                     ELSE UNCHANGED <<subscriptionInstances, sdks>>
    /\ notifications' = <<>>
    /\ sendInfo' = NoSendInfo
    /\ releases' = <<>>
    /\ UNCHANGED <<sdkInstances, walletInstances, wallets>>
    /\ PureUnchanged

----------------------------------------------------------------------------
(* index.ts: handleBalanceChangeEvent; KaspaSDK.emit; raw events *)

\* The notification written for a matching event; the transaction id is shown
\* only if the data carries one and the subscription includes transactions.
Notification(listener, stream, address) ==
    [session |-> subs[listener].sessionId, address |-> address,
     stream |-> stream, listener |-> listener,
     transaction |-> stream # "balance:changed" /\ subs[listener].includeTransactions]

\* if (!address || !subscription.addresses.has(address)) return;
Delivers(listener, address) ==
    address # NoAddress /\ address \in subs[listener].addresses

\* handleBalanceChangeEvent: the notifications one call emits.
handleBalanceChangeEvent(listener, stream, address) ==
    IF Delivers(listener, address)
    THEN <<Notification(listener, stream, address)>>
    ELSE <<>>

RECURSIVE CallHandlers(_, _, _)
CallHandlers(handlers, stream, address) ==
    IF handlers = <<>> THEN <<>>
    ELSE handleBalanceChangeEvent(Head(handlers), stream, address)
         \o CallHandlers(Tail(handlers), stream, address)

\* handlers.forEach of KaspaSDK.emit: the handlers it calls, in order.
EmitCalls(sdk, stream) == SeqOfSet(sdks[sdk].eventListeners[stream])

\* KaspaSDK.emit(event, data): every handler of the event's set, once.
emit(sdk, stream, address) == CallHandlers(EmitCalls(sdk, stream), stream, address)

\* One call on the listener registry, as the history keeps it: called, the
\* handlers an emit called in order; after, the registry the call left.
ListenerCall(op, event, handler, called, after) ==
    [op |-> op, event |-> event, handler |-> handler, called |-> called, after |-> after]

\* The rest of the server does not take part in a call on the registry.
RegistryUnchanged ==
    UNCHANGED <<tables, wallets, subs, obs, nsVars, selVars, feeVars, tasks>>

\* sdk.on(event, handler)
RegistryOn(sdk, event, handler) ==
    /\ sdk \in 1..Len(sdks)
    /\ \E newSdk \in {on(sdks[sdk], event, handler)} :
          /\ sdks' = [sdks EXCEPT ![sdk] = newSdk]
          /\ listenerCalls' = Append(listenerCalls,
                                     ListenerCall("on", event, handler, <<>>,
                                                  newSdk.eventListeners))
    /\ RegistryUnchanged

\* sdk.off(event, handler)
RegistryOff(sdk, event, handler) ==
    /\ sdk \in 1..Len(sdks)
    /\ \E newSdk \in {off(sdks[sdk], event, handler)} :
          /\ sdks' = [sdks EXCEPT ![sdk] = newSdk]
          /\ listenerCalls' = Append(listenerCalls,
                                     ListenerCall("off", event, handler, <<>>,
                                                  newSdk.eventListeners))
    /\ RegistryUnchanged

\* sdk.emit(event, data), the handlers being functions that leave the server
\* alone.
RegistryEmit(sdk, event) ==
    /\ sdk \in 1..Len(sdks)
    /\ listenerCalls' = Append(listenerCalls,
                               ListenerCall("emit", event, 0, EmitCalls(sdk, event),
                                            sdks[sdk].eventListeners))
    /\ UNCHANGED sdks
    /\ RegistryUnchanged

\* The Engine reports one UTXO added to ("added") or removed from ("removed")
\* an address on the connection of an SDK: RpcClient.handleEvent calls every
\* 'utxos-changed' closure, and each of them emits the SDK event once.
DeliverUtxosChanged(sdk, change, address) ==
    /\ Idle
    /\ sdk \in 1..Len(sdks)
    /\ IsOpen(sdks[sdk])
    /\ sdks[sdk].utxosChangedHandlers > 0
    /\ LET stream == IF change = "added" THEN "transaction:incoming"
                     ELSE "transaction:spent"
       IN /\ notifications' = Repeat(sdks[sdk].utxosChangedHandlers,
                                     emit(sdk, stream, address))
          /\ req' = Request(IF change = "added" THEN "utxos-changed:added"
                            ELSE "utxos-changed:removed",
                            Undefined, Undefined, sdk, address, {})
    /\ res' = Result("ok", "", {})
    /\ engineCalls' = <<>>
    /\ sendInfo' = NoSendInfo
    /\ releases' = <<>>
    /\ UNCHANGED <<tables, heap>>
    /\ PureUnchanged

\* The UTXO processor reports 'stasis': setupUtxoProcessorEvents emits
\* balance:changed once (its data may carry no address).
DeliverBalanceChanged(sdk, address) ==
    /\ Idle
    /\ sdk \in 1..Len(sdks)
    /\ sdks[sdk].utxoProcessor = "started"
    /\ notifications' = emit(sdk, "balance:changed", address)
    /\ sendInfo' = NoSendInfo
    /\ releases' = <<>>
    /\ req' = Request("stasis", Undefined, Undefined, sdk, address, {})
    /\ res' = Result("ok", "", {})
    /\ engineCalls' = <<>>
    /\ UNCHANGED <<tables, heap>>
    /\ PureUnchanged

----------------------------------------------------------------------------
(* index.ts: handleSendTransaction *)

\* Results of the steps a request did not reach.
NoFee ==
    [ok |-> FALSE, text |-> "", calls |-> <<>>, kind |-> "none", baseFee |-> None,
     fee |-> None]

NotSent ==
    [ok |-> FALSE, text |-> "", calls |-> <<>>, baseFee |-> None,
     generatorPriorityFee |-> None]

\* The fees in the configuration of sdk.sendTransaction: the fee computed is
\* the total fee if customFee was given, else the priority fee.
SendConfig(customFee, priorityFeeSompi) ==
    [customTotalFee |-> IF Truthy(customFee) THEN priorityFeeSompi ELSE None,
     priorityFee |-> IF Truthy(customFee) THEN None ELSE priorityFeeSompi]

\* The sender key of handleSendTransaction: the key of `from` if one is given
\* (NoAddress: none), else the wallet's first key.
SenderKey(wallet, network, from) ==
    IF from # NoAddress
    THEN FindSenderKey(wallet, network, from, 0)
    ELSE [ok |-> getReceivePrivateKey(wallet, 0).ok,
          key |-> getReceivePrivateKey(wallet, 0).key, probed |-> <<0>>]

\* What the try block of a send answers, given the results of its steps: a the
\* amount, k the sender key (keyFirst: it is looked up before the fee), f the
\* fee, balanceOk the balance check, s sdk.sendTransaction. The first failure
\* is thrown as an InternalError; preCalls are the Engine calls of the handler
\* itself.
SendOutcome(amount, feePriority, a, k, keyFirst, keyText, f, balanceOk, preCalls, s) ==
    IF ~a.ok
    THEN Outcome("InternalError", a.text, <<>>,
                 SendInfo(amount, None, "none", feePriority, None, None, None))
    ELSE IF keyFirst /\ ~k.ok
    THEN Outcome("InternalError", keyText, <<>>,
                 SendInfo(amount, a.sompi, "none", feePriority, None, None, None))
    ELSE IF ~f.ok
    THEN Outcome("InternalError", f.text, f.calls,
                 SendInfo(amount, a.sompi, f.kind, feePriority, f.baseFee, f.fee, None))
    ELSE IF ~k.ok
    THEN Outcome("InternalError", keyText, f.calls,
                 SendInfo(amount, a.sompi, f.kind, feePriority, f.baseFee, f.fee, None))
    ELSE IF ~balanceOk
    THEN Outcome("InternalError", "Insufficient balance", preCalls,
                 SendInfo(amount, a.sompi, f.kind, feePriority, f.baseFee, f.fee, None))
    ELSE Outcome(IF s.ok THEN "ok" ELSE "InternalError", s.text, preCalls \o s.calls,
                 SendInfo(amount, a.sompi, f.kind, feePriority,
                          IF f.baseFee # None THEN f.baseFee ELSE s.baseFee,
                          f.fee, s.generatorPriorityFee))

\* from is NoAddress when the caller gave none. One request sees one Engine:
\* the same UTXO answer for the estimate and for the send. The steps are the
\* statements of the try block in their order; a step the request does not
\* reach yields NoFee, NoKey or NotSent.
handleSendTransaction(sessionIdArg, from, amount, feePriority, customFee, priorityFee, engine) ==
    /\ Idle
    /\ \E sessionId \in {normalizeSessionId(sessionIdArg)} :
       \E sdk \in {MapGet(sdkInstances, sessionId)},
          wallet \in {MapGet(walletInstances, sessionId)},
          tier \in {FeePriorityParam(feePriority)} :
       \E a \in {ParseAmount(amount)} :
       \E f \in {IF sdk # 0 /\ wallet # 0 /\ a.ok
                 THEN SendTransactionFee(engine, tier, customFee, PriorityFeeParam(priorityFee))
                 ELSE NoFee} :
       \E k \in {IF f.ok
                 THEN SenderKey(wallets[wallet], sdks[sdk].networkType, from)
                 ELSE [ok |-> FALSE, key |-> NoKey, probed |-> <<>>]} :
       \E config \in {SendConfig(customFee, f.fee)} :
       \E s \in {IF k.ok
                 THEN sendTransaction(engine, config.customTotalFee, config.priorityFee)
                 ELSE NotSent} :
       \E out \in {IF sdk = 0
                   THEN Outcome("InvalidRequest", "No active connection", <<>>, NoSendInfo)
                   ELSE IF wallet = 0
                   THEN Outcome("InvalidRequest", "No wallet available", <<>>, NoSendInfo)
                   ELSE SendOutcome(amount, tier, a, k, FALSE, "Address not found in wallet",
                                    f, TRUE, f.calls, s)} :
          /\ req' = Request("kaspa_send_transaction", sessionIdArg, sessionId, sdk, from, {})
          /\ res' = Result(out.status, out.text, {})
          /\ engineCalls' = out.calls
          /\ sendInfo' = [out.info EXCEPT !.probed = k.probed, !.keyFound = k.ok,
                                          !.senderKey = k.key,
                                          !.customFee = customFee,
                                          !.priorityFee = PriorityFeeParam(priorityFee),
                                          !.feeCalls = f.calls,
                                          !.sent = k.ok,
                                          !.config = IF k.ok THEN config ELSE @]
          /\ releases' = <<>>
    /\ notifications' = <<>>
    /\ UNCHANGED <<tables, heap>>
    /\ PureUnchanged

----------------------------------------------------------------------------
(* index.ts: handleSendFromWallet *)

\* The key is looked up first, then the fee, then the balance is checked.
handleSendFromWallet(sessionIdArg, addressIndex, amount, feePriority, customFee, engine) ==
    /\ Idle
    /\ \E sessionId \in {normalizeSessionId(sessionIdArg)} :
       \E sdk \in {MapGet(sdkInstances, sessionId)},
          wallet \in {MapGet(walletInstances, sessionId)},
          tier \in {FeePriorityParam(feePriority)} :
       \E a \in {ParseAmount(amount)} :
       \E k \in {IF sdk # 0 /\ wallet # 0 /\ a.ok
                 THEN getReceivePrivateKey(wallets[wallet], addressIndex)
                 ELSE [ok |-> FALSE, key |-> NoKey]} :
       \E f \in {IF k.ok THEN SendFromWalletFee(engine, tier, customFee) ELSE NoFee} :
       \E balanceOk \in {f.ok /\ engine.balance >= a.sompi + f.fee} :
       \E s \in {IF balanceOk
                 THEN sendTransaction(engine,
                                      IF Truthy(customFee) THEN f.fee ELSE None,
                                      IF Truthy(customFee) THEN None ELSE f.fee)
                 ELSE NotSent} :
       \E out \in {IF sdk = 0
                   THEN Outcome("InvalidRequest", "No active connection", <<>>, NoSendInfo)
                   ELSE IF wallet = 0
                   THEN Outcome("InvalidRequest", "No wallet available", <<>>, NoSendInfo)
                   ELSE SendOutcome(amount, tier, a, k, TRUE, "Cannot get private key",
                                    f, balanceOk, f.calls \o <<"getBalance">>, s)} :
          /\ req' = Request("kaspa_send_from_wallet", sessionIdArg, sessionId, sdk, NoAddress, {})
          /\ res' = Result(out.status, out.text, {})
          /\ engineCalls' = out.calls
          /\ sendInfo' = out.info
          /\ releases' = <<>>
    /\ notifications' = <<>>
    /\ UNCHANGED <<tables, heap>>
    /\ PureUnchanged

----------------------------------------------------------------------------
(* index.ts: handleGetFeeRecommendations *)

FeeRecommendations(amount, a, baseFeeEstimate) ==
    IF ~a.ok
    THEN Outcome("InternalError", a.text, <<>>,
                 SendInfo(amount, None, "none", "", None, None, None))
    ELSE IF ~baseFeeEstimate.ok
    THEN Outcome("InternalError", "No UTXOs available for estimation", baseFeeEstimate.calls,
                 SendInfo(amount, a.sompi, "recommendations", "", None, None, None))
    ELSE Outcome("ok", "Fee Recommendations", baseFeeEstimate.calls,
                 [SendInfo(amount, a.sompi, "recommendations", "", baseFeeEstimate.baseFee,
                           None, None)
                    EXCEPT !.lowFee    = TierFee(baseFeeEstimate.baseFee, "low"),
                           !.normalFee = baseFeeEstimate.baseFee,
                           !.highFee   = TierFee(baseFeeEstimate.baseFee, "high")])

handleGetFeeRecommendations(sessionIdArg, from, amount, engine) ==
    /\ Idle
    /\ \E sessionId \in {DefaultParam(sessionIdArg)} :
       \E sdk \in {MapGet(sdkInstances, sessionId)} :
       \E a \in {ParseAmount(amount)}, baseFeeEstimate \in {estimateFee(engine)} :
       \E out \in {IF sdk = 0
                   THEN Outcome("InvalidRequest", "No active connection", <<>>, NoSendInfo)
                   ELSE FeeRecommendations(amount, a, baseFeeEstimate)} :
          /\ req' = Request("kaspa_get_fee_recommendations", sessionIdArg, sessionId, sdk,
                            from, {})
          /\ res' = Result(out.status, out.text, {})
          /\ engineCalls' = out.calls
          /\ sendInfo' = out.info
          /\ releases' = <<>>
    /\ notifications' = <<>>
    /\ UNCHANGED <<tables, heap>>
    /\ PureUnchanged

----------------------------------------------------------------------------
(* index.ts: handleEstimateFee *)

\* What the try block of handleEstimateFee answers: the amount, then
\* sdk.estimateFee(from, to, amountSompi).
FeeEstimate(amount, a, feeEstimate) ==
    IF ~a.ok
    THEN Outcome("InternalError", a.text, <<>>,
                 SendInfo(amount, None, "none", "", None, None, None))
    ELSE IF ~feeEstimate.ok
    THEN Outcome("InternalError", "No UTXOs available for estimation", feeEstimate.calls,
                 SendInfo(amount, a.sompi, "estimate", "", None, None, None))
    ELSE Outcome("ok", "Fee estimate", feeEstimate.calls,
                 SendInfo(amount, a.sompi, "estimate", "", feeEstimate.baseFee, None, None))

handleEstimateFee(sessionIdArg, from, amount, engine) ==
    /\ Idle
    /\ \E sessionId \in {DefaultParam(sessionIdArg)} :
       \E sdk \in {MapGet(sdkInstances, sessionId)} :
       \E a \in {ParseAmount(amount)}, feeEstimate \in {estimateFee(engine)} :
       \E out \in {IF sdk = 0
                   THEN Outcome("InvalidRequest", "No active connection", <<>>, NoSendInfo)
                   ELSE FeeEstimate(amount, a, feeEstimate)} :
          /\ req' = Request("kaspa_estimate_fee", sessionIdArg, sessionId, sdk, from, {})
          /\ res' = Result(out.status, out.text, {})
          /\ engineCalls' = out.calls
          /\ sendInfo' = out.info
          /\ releases' = <<>>
    /\ notifications' = <<>>
    /\ UNCHANGED <<tables, heap>>
    /\ PureUnchanged

----------------------------------------------------------------------------
(* index.ts: handleGetSubscriptionStatus *)

\* A status that shows the current balance as the change.
BalanceChange_NoSnapshot(balance, lastBalance) == balance

\* const change = balance.balance - lastBalance
BalanceChange(balance, lastBalance) == balance - lastBalance

\* replies: what sdk.getBalance answers for each monitored address.
handleGetSubscriptionStatus(sessionIdArg, replies) ==
    /\ Idle
    /\ LET sessionId == DefaultParam(sessionIdArg)
           subscription == MapGet(subscriptionInstances, sessionId)
           sdk == MapGet(sdkInstances, sessionId)
           answered == IF sdk = 0 THEN {}
                       ELSE {a \in subs[subscription].addresses : replies[a] # QueryFailed}
       IN /\ req' = Request("kaspa_get_subscription_status", sessionIdArg, sessionId, sdk,
                            NoAddress, {})
          /\ IF subscription = 0 \/ subs[subscription].addresses = {}
             THEN /\ res' = Result("ok", "No active balance subscriptions", {})
                  /\ engineCalls' = <<>>
             ELSE /\ res' = [Result("ok", "Balance Subscription Status",
                                    subs[subscription].addresses)
                                EXCEPT !.balances = [a \in answered |-> replies[a]],
                                       !.changes = [a \in answered |->
                                           BalanceChange(replies[a],
                                               subs[subscription].lastBalances[a])]]
                  /\ engineCalls' = IF sdk = 0 THEN <<>>
                                    ELSE [i \in 1..Cardinality(subs[subscription].addresses)
                                             |-> "getBalance"]
    /\ notifications' = <<>>
    /\ sendInfo' = NoSendInfo
    /\ releases' = <<>>
    /\ UNCHANGED <<tables, heap>>
    /\ PureUnchanged

----------------------------------------------------------------------------
(* index.ts: cleanup, on SIGINT *)

\* The objects a table holds, in the iteration order of the Map: a key is
\* deleted before it is set again, so the order is the order of creation.
Values(m) == SeqOfSet({m[k] : k \in DOMAIN m})

\* The key a table holds an object under.
KeyOf(m, id) == CHOOSE k \in DOMAIN m : m[k] = id

\* for (const [sessionId, sdk] of sdkInstances) { try { await sdk.dispose() }
\* catch { /* continue */ } }: the SDKs whose disposal is attempted.
RECURSIVE DisposeLoop_StopOnThrow(_, _)
DisposeLoop_StopOnThrow(ids, failures) ==
    IF ids = <<>> THEN <<>>
    ELSE IF disposeThrows(sdks[Head(ids)], failures[Head(ids)]) THEN <<Head(ids)>>
    ELSE <<Head(ids)>> \o DisposeLoop_StopOnThrow(Tail(ids), failures)

RECURSIVE DisposeLoop(_, _)
DisposeLoop(ids, failures) ==
    IF ids = <<>> THEN <<>>
    ELSE <<Head(ids)>> \o DisposeLoop(Tail(ids), failures)

\* failures[i]: the step at which disposing SDK i throws. Every SDK of the
\* table is disposed, then every wallet, then both tables are cleared; the
\* process exits.
cleanup(failures) ==
    /\ Idle
    /\ \E disposed \in {DisposeLoop(Values(sdkInstances), failures)},
          freed \in {Values(walletInstances)} :
          /\ sdks' = [i \in DOMAIN sdks |->
                         IF \E j \in 1..Len(disposed) : disposed[j] = i
                         THEN dispose(sdks[i], failures[i]) ELSE sdks[i]]
          /\ wallets' = [i \in DOMAIN wallets |->
                            IF \E j \in 1..Len(freed) : freed[j] = i
                            THEN [wallets[i] EXCEPT !.disposed = TRUE] ELSE wallets[i]]
          /\ releases' =
                 [j \in 1..Len(disposed) |->
                     Release("connection", KeyOf(sdkInstances, disposed[j]), disposed[j],
                             ~disposeThrows(sdks[disposed[j]], failures[disposed[j]]))]
                 \o [j \in 1..Len(freed) |->
                        Release("wallet", KeyOf(walletInstances, freed[j]), freed[j], TRUE)]
          /\ engineCalls' =
                 [j \in 1..Cardinality({i \in 1..Len(disposed) :
                        DisposeCalls(sdks[disposed[i]], failures[disposed[i]]) # <<>>})
                     |-> "disconnect"]
    /\ sdkInstances' = EmptyMap
    /\ walletInstances' = EmptyMap
    /\ req' = Request("SIGINT", Undefined, Undefined, 0, NoAddress, {})
    /\ res' = Result("exit", "", {})
    /\ notifications' = <<>>
    /\ sendInfo' = NoSendInfo
    /\ UNCHANGED <<subscriptionInstances, subs>>
    /\ PureUnchanged

\* process.exit(0) has been called.
Exited == req.op = "SIGINT"

----------------------------------------------------------------------------
(* index.ts: the SIGINT handler and cleanup, await by await *)

\* The Map iterator of the first loop: the SDK of the table that follows the
\* one visited last (0: none is left). An entry deleted and set again while
\* the loop is suspended lies behind the iterator and is visited.
NextSdk(cursor) ==
    IF {sdkInstances[k] : k \in DOMAIN sdkInstances} \cap ((cursor + 1)..Len(sdks)) = {}
    THEN 0
    ELSE CHOOSE i \in {sdkInstances[k] : k \in DOMAIN sdkInstances} \cap ((cursor + 1)..Len(sdks)) :
             \A k \in DOMAIN sdkInstances : sdkInstances[k] > cursor => i <= sdkInstances[k]

\* A loop that lets the error of a release escape.
LoopGoesOn_Rethrow(threw) == ~threw

\* catch (error) { console.error(...) }: the loop goes on after a throw.
LoopGoesOn(threw) == TRUE

\* cleanup from the iterator position `cursor`, on the SDK objects newSdks:
\* the next SDK is disposed (its listeners are cleared at once, then the call
\* is awaited); with no SDK left every wallet of the table is disposed, both
\* tables are cleared and the process exits.
CleanupFrom(t, newSdks, cursor, status) ==
    IF NextSdk(cursor) # 0
    THEN /\ tasks' = [tasks EXCEPT ![t] = [NoTask EXCEPT !.pc = "cleanup", !.op = "SIGINT",
                                                         !.sdk = NextSdk(cursor),
                                                         !.status = status]]
         /\ sdks' = [newSdks EXCEPT ![NextSdk(cursor)].eventListeners = NoListeners,
                                    ![NextSdk(cursor)].disposed = TRUE]
         /\ UNCHANGED <<sdkInstances, walletInstances, wallets, obs>>
    ELSE /\ tasks' = [tasks EXCEPT ![t] = [NoTask EXCEPT !.pc = "exited", !.op = "SIGINT",
                                                         !.status = status]]
         /\ sdks' = newSdks
         /\ wallets' = [i \in DOMAIN wallets |->
                           IF \E k \in DOMAIN walletInstances : walletInstances[k] = i
                           THEN [wallets[i] EXCEPT !.disposed = TRUE] ELSE wallets[i]]
         /\ sdkInstances' = EmptyMap
         /\ walletInstances' = EmptyMap
         /\ req' = Request("SIGINT", Undefined, Undefined, 0, NoAddress, {})
         /\ res' = Result("exit", "", {})
         /\ engineCalls' = <<>>
         /\ notifications' = <<>>
         /\ sendInfo' = NoSendInfo
         /\ releases' = [j \in 1..Len(Values(walletInstances)) |->
                            Release("wallet", KeyOf(walletInstances, Values(walletInstances)[j]),
                                    Values(walletInstances)[j], TRUE)]

\* SIGINT arrives: cleanup runs to its first await, or to the exit.
CleanupStart(t) ==
    /\ ~Exited
    /\ \A u \in 1..MaxTasks : tasks[u].op # "SIGINT"
    /\ CleanupFrom(t, sdks, 0, "ok")
    /\ UNCHANGED <<subscriptionInstances, subs, nsVars, selVars, feeVars, listenerCalls>>

\* The awaited sdk.dispose() has settled: it returned, or it threw at the
\* step disposeFailure and the error was logged.
ReleaseSettled(t, disposeFailure) ==
    /\ tasks[t].pc = "cleanup"
    /\ ~Exited
    /\ \E threw \in {disposeThrows(sdks[tasks[t].sdk], disposeFailure)},
          newSdks \in {[sdks EXCEPT ![tasks[t].sdk] =
                           [dispose(@, disposeFailure)
                               EXCEPT !.eventListeners = sdks[tasks[t].sdk].eventListeners]]} :
          IF LoopGoesOn(threw)
          THEN CleanupFrom(t, newSdks, tasks[t].sdk,
                           IF threw THEN "threw" ELSE tasks[t].status)
          ELSE /\ tasks' = [tasks EXCEPT ![t].pc = "rejected"]
               /\ sdks' = newSdks
               /\ UNCHANGED <<sdkInstances, walletInstances, wallets, obs>>
    /\ UNCHANGED <<subscriptionInstances, subs, nsVars, selVars, feeVars, listenerCalls>>

----------------------------------------------------------------------------
(* The response is returned to the caller; the next request can be taken. *)

Respond ==
    /\ ~Idle
    /\ ~Exited
    /\ req' = NoRequest
    /\ res' = NoResult
    /\ engineCalls' = <<>>
    /\ notifications' = <<>>
    /\ sendInfo' = NoSendInfo
    /\ releases' = <<>>
    /\ UNCHANGED <<tables, heap>>
    /\ PureUnchanged

----------------------------------------------------------------------------
(* Idle values of each group of variables *)

NotCalled == [status |-> "none", selectedUtxos |-> <<>>, totalAmount |-> 0, change |-> 0]

srvInit ==
    /\ sdkInstances = EmptyMap
    /\ walletInstances = EmptyMap
    /\ subscriptionInstances = EmptyMap
    /\ sdks = <<>>
    /\ wallets = <<>>
    /\ subs = <<>>
    /\ req = NoRequest
    /\ res = NoResult
    /\ engineCalls = <<>>
    /\ notifications = <<>>
    /\ sendInfo = NoSendInfo
    /\ releases = <<>>
    /\ tasks = [t \in 1..MaxTasks |-> NoTask]
    /\ listenerCalls = <<>>

nsIdle  == nsIn = Undefined /\ nsOut = Undefined /\ nsTwice = Undefined /\ nsDone = FALSE
selIdle == selUtxos = <<>> /\ selTarget = 0 /\ selFee = 0 /\ selOut = NotCalled
feeIdle == feeUtxos = <<>> /\ feeAmount = 0 /\ feeCost = 0 /\ feeMaxInputs = 0 /\ feeOut = NoSendResult

----------------------------------------------------------------------------
(* Specification of normalizeSessionId over bounded inputs *)

IdAlphabet == {" ", "\t", "a"}

RawIdInputs == Strings(IdAlphabet, MaxIdLen) \cup {Undefined, Default}

InitNormalize ==
    /\ nsIn \in RawIdInputs
    /\ nsOut = Undefined /\ nsTwice = Undefined /\ nsDone = FALSE
    /\ selIdle
    /\ feeIdle
    /\ srvInit

ApplyNormalize ==
    /\ ~nsDone
    /\ nsOut' = normalizeSessionId(nsIn)
    /\ nsTwice' = normalizeSessionId(nsOut')
    /\ nsDone' = TRUE
    /\ UNCHANGED <<nsIn, selVars, feeVars, srvVars, tasks, listenerCalls>>

NextNormalize == ApplyNormalize

SpecNormalize == InitNormalize /\ [][NextNormalize]_vars

----------------------------------------------------------------------------
(* Specification of selectUTXOs over bounded inputs *)

UtxoLists ==
    UNION {{[i \in 1..k |-> Utxo(i, f[i])] : f \in [1..k -> 1..MaxAmount]} : k \in 0..MaxUtxos}

InitSelect ==
    /\ selUtxos \in UtxoLists
    /\ selTarget \in 0..MaxTarget
    /\ selFee \in 0..MaxFee
    /\ selOut = NotCalled
    /\ nsIdle
    /\ feeIdle
    /\ srvInit

ApplySelect ==
    /\ selOut.status = "none"
    /\ selOut' = selectUTXOs(selUtxos, selTarget, selFee)
    /\ UNCHANGED <<selUtxos, selTarget, selFee, nsVars, feeVars, srvVars, tasks,
                   listenerCalls>>

NextSelect == ApplySelect

SpecSelect == InitSelect /\ [][NextSelect]_vars

----------------------------------------------------------------------------
(* Specification of the fee of a send result over bounded inputs *)

InitFee ==
    /\ feeUtxos \in UtxoLists
    /\ feeAmount \in 1..MaxTarget
    /\ feeCost \in 0..MaxFee
    /\ feeMaxInputs \in 1..MaxUtxos
    /\ feeOut = NoSendResult
    /\ nsIdle
    /\ selIdle
    /\ srvInit

ApplySendResult ==
    /\ feeOut.status = "none"
    /\ \E submitOk \in BOOLEAN :
           feeOut' = SendResult(feeUtxos,
                                buildWithGenerator(feeUtxos, feeAmount, feeCost, feeMaxInputs),
                                submitOk)
    /\ UNCHANGED <<feeUtxos, feeAmount, feeCost, feeMaxInputs, nsVars, selVars, srvVars, tasks,
                   listenerCalls>>

NextFee == ApplySendResult

SpecFee == InitFee /\ [][NextFee]_vars

----------------------------------------------------------------------------
(* Specification of the balance subscription engine of one session *)

SubAddrs   == {addrA, addrB}
EventAddrs == {addrA, addrB, addrC}
Replies    == {QueryFailed, 0, 100}

InitSub == srvInit /\ nsIdle /\ selIdle /\ feeIdle

SubConnect ==
    /\ Idle
    /\ \E network \in Networks, initFailure \in {"none", "connect"} :
           handleConnect(Undefined, network, Undefined, initFailure, "none")

SubSubscribe ==
    /\ Idle
    /\ \E addresses \in SUBSET SubAddrs, includeTransactions \in BOOLEAN,
          subscribeOk \in BOOLEAN :
           \E replies \in [AddressesToMonitor(Default, addresses) -> Replies] :
               handleSubscribeBalance(Undefined, addresses, includeTransactions,
                                      replies, subscribeOk)

SubUnsubscribe ==
    /\ Idle
    /\ \E addresses \in SUBSET SubAddrs, unsubscribeOk \in BOOLEAN :
           handleUnsubscribeBalance(Undefined, addresses, unsubscribeOk)

SubUtxosChanged ==
    /\ Idle
    /\ \E sdk \in 1..MaxSdks, change \in {"added", "removed"}, address \in EventAddrs :
           DeliverUtxosChanged(sdk, change, address)

SubBalanceChanged ==
    /\ Idle
    /\ \E sdk \in 1..MaxSdks, address \in EventAddrs \cup {NoAddress} :
           DeliverBalanceChanged(sdk, address)

NextSub ==
    \/ SubConnect
    \/ SubSubscribe
    \/ SubUnsubscribe
    \/ SubUtxosChanged
    \/ SubBalanceChanged
    \/ Respond

SpecSub == InitSub /\ [][NextSub]_vars

----------------------------------------------------------------------------
(* Specification of the session lookup of the commands, over raw session ids *)

Abc       == <<"a", "b", "c">>
PaddedAbc == <<" ", " ", "a", "b", "c", " ", " ">>

SessionIdInputs == {Undefined, <<>>, <<" ", " ", " ">>, Default, PaddedAbc, Abc}

One == <<"1">>

\* An Engine that has funds and accepts everything.
WillingEngine == Engine(TRUE, 1, 100, TRUE, TRUE)

InitSession == srvInit /\ nsIdle /\ selIdle /\ feeIdle

SessionConnect ==
    /\ Idle
    /\ \E sessionId \in SessionIdInputs, initFailure \in {"none", "connect"} :
           handleConnect(sessionId, "testnet-10", Undefined, initFailure, "none")

SessionCreateWallet ==
    /\ Idle
    /\ \E sessionId \in SessionIdInputs, walletOk \in BOOLEAN :
           handleCreateWallet(sessionId, "generate", 0, "none", walletOk)

SessionGetBalance ==
    /\ Idle
    /\ \E sessionId \in SessionIdInputs, queryOk \in BOOLEAN :
           handleGetBalance(sessionId, addrA, queryOk)

SessionSubscribe ==
    /\ Idle
    /\ \E sessionId \in SessionIdInputs, subscribeOk \in BOOLEAN :
           handleSubscribeBalance(sessionId, {addrA}, FALSE, [a \in {addrA} |-> 0], subscribeOk)

SessionUnsubscribe ==
    /\ Idle
    /\ \E sessionId \in SessionIdInputs, unsubscribeOk \in BOOLEAN :
           handleUnsubscribeBalance(sessionId, {}, unsubscribeOk)

SessionSend ==
    /\ Idle
    /\ \E sessionId \in SessionIdInputs :
           handleSendTransaction(sessionId, NoAddress, One, NoFeePriority, Undefined,
                                 Undefined, WillingEngine)

SessionSendFromWallet ==
    /\ Idle
    /\ \E sessionId \in SessionIdInputs :
           handleSendFromWallet(sessionId, 0, One, NoFeePriority, Undefined, WillingEngine)

SessionFeeRecommendations ==
    /\ Idle
    /\ \E sessionId \in SessionIdInputs :
           handleGetFeeRecommendations(sessionId, addrA, One, WillingEngine)

SessionEstimateFee ==
    /\ Idle
    /\ \E sessionId \in SessionIdInputs :
           handleEstimateFee(sessionId, addrA, One, WillingEngine)

NextSession ==
    \/ SessionConnect
    \/ SessionCreateWallet
    \/ SessionGetBalance
    \/ SessionSubscribe
    \/ SessionUnsubscribe
    \/ SessionSend
    \/ SessionSendFromWallet
    \/ SessionFeeRecommendations
    \/ SessionEstimateFee
    \/ Respond

SpecSession == InitSession /\ [][NextSession]_vars

----------------------------------------------------------------------------
(* Specification of the commands that need a connection: two sessions are   *)
(* set up, every command is tried on them and on a session never set up     *)

\* The identifiers sessions are set up under, and those commands name.
SetUpIds    == {Undefined, PaddedAbc}
GuardedIds  == {Undefined, PaddedAbc, Abc}

InitGuarded == srvInit /\ nsIdle /\ selIdle /\ feeIdle

GuardedConnect ==
    /\ Idle
    /\ \E sessionId \in SetUpIds : handleConnect(sessionId, "testnet-10", Undefined, "none", "none")

GuardedCreateWallet ==
    /\ Idle
    /\ \E sessionId \in SetUpIds : handleCreateWallet(sessionId, "generate", 0, "none", TRUE)

GuardedGetBalance ==
    /\ Idle
    /\ \E sessionId \in GuardedIds : handleGetBalance(sessionId, addrA, TRUE)

GuardedSubscribe ==
    /\ Idle
    /\ \E sessionId \in GuardedIds :
           handleSubscribeBalance(sessionId, {addrA}, FALSE, [a \in {addrA} |-> 0], TRUE)

GuardedUnsubscribe ==
    /\ Idle
    /\ \E sessionId \in GuardedIds : handleUnsubscribeBalance(sessionId, {}, TRUE)

GuardedSend ==
    /\ Idle
    /\ \E sessionId \in GuardedIds :
           handleSendTransaction(sessionId, NoAddress, One, NoFeePriority, Undefined,
                                 Undefined, WillingEngine)

GuardedSendFromWallet ==
    /\ Idle
    /\ \E sessionId \in GuardedIds :
           handleSendFromWallet(sessionId, 0, One, NoFeePriority, Undefined, WillingEngine)

GuardedEstimateFee ==
    /\ Idle
    /\ \E sessionId \in GuardedIds, amount \in {One, <<"a">>} :
           handleEstimateFee(sessionId, addrA, amount, WillingEngine)

NextGuarded ==
    \/ GuardedConnect
    \/ GuardedCreateWallet
    \/ GuardedGetBalance
    \/ GuardedSubscribe
    \/ GuardedUnsubscribe
    \/ GuardedSend
    \/ GuardedSendFromWallet
    \/ GuardedEstimateFee
    \/ Respond

SpecGuarded == InitGuarded /\ [][NextGuarded]_vars

----------------------------------------------------------------------------
(* Specification of repeated connects of one session, with and without a     *)
(* custom RPC URL, next to its wallet and its subscription                   *)

RpcUrls == {Undefined, <<"a">>, <<"b">>}

InitReconnect == srvInit /\ nsIdle /\ selIdle /\ feeIdle

ReconnectConnect ==
    /\ Idle
    /\ \E network \in Networks, rpcUrl \in RpcUrls, initFailure \in {"none", "connect"} :
           handleConnect(Undefined, network, rpcUrl, initFailure, "none")

ReconnectCreateWallet ==
    /\ Idle
    /\ handleCreateWallet(Undefined, "generate", 0, "none", TRUE)

ReconnectSubscribe ==
    /\ Idle
    /\ \E addresses \in {{}, {addrA}} :
           handleSubscribeBalance(Undefined, addresses, FALSE,
                                  [a \in AddressesToMonitor(Default, addresses) |-> 100], TRUE)

NextReconnect ==
    \/ ReconnectConnect
    \/ ReconnectCreateWallet
    \/ ReconnectSubscribe
    \/ Respond

SpecReconnect == InitReconnect /\ [][NextReconnect]_vars

----------------------------------------------------------------------------
(* Specification of the wallets of sessions: connects and network switches,  *)
(* wallets generated, imported and set up from the environment               *)

WalletIds == {Undefined, Abc}

\* What the environment may hold: nothing, a mnemonic or a private key.
CredentialInputs ==
    {NoCredentials, [kind |-> "mnemonic", material |-> 2],
     [kind |-> "privateKey", material |-> 2]}

InitWallets == srvInit /\ nsIdle /\ selIdle /\ feeIdle

WalletsConnect ==
    /\ Idle
    /\ \E sessionId \in WalletIds, network \in Networks, initFailure \in {"none", "connect"} :
           handleConnect(sessionId, network, Undefined, initFailure, "none")

\* A generated wallet, or an imported one whose credentials the constructor
\* accepts or rejects.
WalletsCreateWallet ==
    /\ Idle
    /\ \E sessionId \in WalletIds :
           \/ handleCreateWallet(sessionId, "generate", 0, "none", TRUE)
           \/ \E kind \in {"mnemonic", "privateKey"}, walletOk \in BOOLEAN :
                  handleCreateWallet(sessionId, kind, 1, "none", walletOk)

WalletsSetup ==
    /\ Idle
    /\ \E sessionId \in WalletIds, credentials \in CredentialInputs, walletOk \in BOOLEAN :
           handleSetupPreconfiguredWallet(sessionId, "mainnet", credentials, "none", walletOk)

NextWallets ==
    \/ WalletsConnect
    \/ WalletsCreateWallet
    \/ WalletsSetup
    \/ Respond

SpecWallets == InitWallets /\ [][NextWallets]_vars

----------------------------------------------------------------------------
(* Specification of the keys of the tables: connects, wallet creations and   *)
(* wallet set-ups of two spellings of a session id, interleaving at awaits   *)

KeyIds == {PaddedAbc, Abc}

KeyCredentials == {NoCredentials, [kind |-> "mnemonic", material |-> 2]}

InitKeys == srvInit /\ nsIdle /\ selIdle /\ feeIdle

\* A call starts in the first free slot, once the results of the calls that
\* have ended are returned.
KeySlot(t) ==
    /\ \A u \in 1..(t - 1) : tasks[u].pc # "idle"
    /\ \A u \in 1..MaxTasks : tasks[u].pc # "done"

KeysConnect ==
    \E t \in 1..MaxTasks, sessionId \in KeyIds, network \in Networks :
        /\ KeySlot(t)
        /\ ConnectStart(t, sessionId, network)

KeysDisposed == \E t \in 1..MaxTasks : ConnectDisposed(t, "none")

KeysInitialized ==
    \E t \in 1..MaxTasks, initFailure \in {"none", "connect"} :
        ConnectInitialized(t, initFailure)

KeysCreateWallet ==
    \E t \in 1..MaxTasks, sessionId \in KeyIds :
        /\ KeySlot(t)
        /\ CreateWalletStart(t, sessionId)

KeysWalletConnected == \E t \in 1..MaxTasks : CreateWalletConnected(t)

KeysSetup ==
    \E t \in 1..MaxTasks, sessionId \in KeyIds, credentials \in KeyCredentials,
       walletOk \in BOOLEAN :
        /\ KeySlot(t)
        /\ SetupWalletStart(t, sessionId, "mainnet", credentials, walletOk)

KeysSetupConnected ==
    \E t \in 1..MaxTasks, credentials \in KeyCredentials, walletOk \in BOOLEAN :
        SetupWalletConnected(t, credentials, walletOk)

KeysReturn == \E t \in 1..MaxTasks : TaskReturn(t)

NextKeys ==
    \/ KeysConnect
    \/ KeysDisposed
    \/ KeysInitialized
    \/ KeysCreateWallet
    \/ KeysWalletConnected
    \/ KeysSetup
    \/ KeysSetupConnected
    \/ KeysReturn

SpecKeys == InitKeys /\ [][NextKeys]_vars

----------------------------------------------------------------------------
(* Specification of the life of sessions: connect, switch, subscribe, shutdown *)

LifeSessionIds == {Undefined, Abc}

InitLife == srvInit /\ nsIdle /\ selIdle /\ feeIdle

LifeConnect ==
    /\ Idle
    /\ \E sessionId \in LifeSessionIds, network \in Networks,
          initFailure \in {"none", "manager"}, disposeFailure \in {"none", "stop"} :
           handleConnect(sessionId, network, Undefined, initFailure, disposeFailure)

LifeCreateWallet ==
    /\ Idle
    /\ \E sessionId \in LifeSessionIds, initFailure \in InitFailures :
           handleCreateWallet(sessionId, "generate", 0, initFailure, TRUE)

LifeSubscribe ==
    /\ Idle
    /\ \E sessionId \in LifeSessionIds :
           handleSubscribeBalance(sessionId, {addrA}, FALSE, [a \in {addrA} |-> 100], TRUE)

LifeUnsubscribe ==
    /\ Idle
    /\ \E sessionId \in LifeSessionIds :
           handleUnsubscribeBalance(sessionId, {}, TRUE)

LifeStatus ==
    /\ Idle
    /\ \E sessionId \in LifeSessionIds :
           handleGetSubscriptionStatus(sessionId,
                                       [a \in Monitored(DefaultParam(sessionId)) |-> 100])

LifeShutdown ==
    /\ Idle
    /\ \E failures \in [1..Len(sdks) -> DisposeFailures] : cleanup(failures)

NextLife ==
    \/ LifeConnect
    \/ LifeCreateWallet
    \/ LifeSubscribe
    \/ LifeUnsubscribe
    \/ LifeStatus
    \/ LifeShutdown
    \/ Respond

SpecLife == InitLife /\ [][NextLife]_vars

----------------------------------------------------------------------------
(* Specification of the shutdown: sessions with connections and wallets, SIGINT *)

InitShutdown == srvInit /\ nsIdle /\ selIdle /\ feeIdle

NextShutdown ==
    \/ LifeConnect
    \/ LifeCreateWallet
    \/ LifeShutdown
    \/ Respond

SpecShutdown == InitShutdown /\ [][NextShutdown]_vars

----------------------------------------------------------------------------
(* Specification of the shutdown await by await: SIGINT arrives while one    *)
(* connect or create-wallet call at a time is under way; every awaited       *)
(* release settles in the end                                                *)

InitExit == srvInit /\ nsIdle /\ selIdle /\ feeIdle

ExitConnect ==
    /\ ~Exited
    /\ \E sessionId \in LifeSessionIds, network \in Networks :
           ConnectStart(2, sessionId, network)

ExitDisposed == ~Exited /\ \E disposeFailure \in {"none", "stop"} : ConnectDisposed(2, disposeFailure)

ExitInitialized == ~Exited /\ ConnectInitialized(2, "none")

ExitCreateWallet ==
    /\ ~Exited
    /\ \E sessionId \in LifeSessionIds : CreateWalletStart(2, sessionId)

ExitWalletConnected == ~Exited /\ CreateWalletConnected(2)

ExitReturn == ~Exited /\ TaskReturn(2)

ExitSigint == tasks[1].pc = "idle" /\ CleanupStart(1)

ExitReleased == \E disposeFailure \in DisposeFailures : ReleaseSettled(1, disposeFailure)

NextExit ==
    \/ ExitConnect
    \/ ExitDisposed
    \/ ExitInitialized
    \/ ExitCreateWallet
    \/ ExitWalletConnected
    \/ ExitReturn
    \/ ExitSigint
    \/ ExitReleased

SpecExit == InitExit /\ [][NextExit]_vars /\ WF_vars(ExitReleased)

----------------------------------------------------------------------------
(* Specification of the listener registry of one SDK: any on, off and emit  *)
(* calls, on two events and with a few handler functions                     *)

ListenerEvents   == {"balance:changed", "transaction:incoming"}
ListenerHandlers == 1..MaxHandlers

InitListeners == srvInit /\ nsIdle /\ selIdle /\ feeIdle

ListenersConnect ==
    /\ Idle
    /\ sdks = <<>>
    /\ handleConnect(Undefined, "mainnet", Undefined, "none", "none")

ListenersOn ==
    /\ Idle
    /\ Len(listenerCalls) < MaxCalls
    /\ \E event \in ListenerEvents, handler \in ListenerHandlers : RegistryOn(1, event, handler)

ListenersOff ==
    /\ Idle
    /\ Len(listenerCalls) < MaxCalls
    /\ \E event \in ListenerEvents, handler \in ListenerHandlers : RegistryOff(1, event, handler)

ListenersEmit ==
    /\ Idle
    /\ Len(listenerCalls) < MaxCalls
    /\ \E event \in ListenerEvents : RegistryEmit(1, event)

NextListeners ==
    \/ ListenersConnect
    \/ ListenersOn
    \/ ListenersOff
    \/ ListenersEmit
    \/ Respond

SpecListeners == InitListeners /\ [][NextListeners]_vars

----------------------------------------------------------------------------
(* Specification of the subscriptions of one session: subscribe, unsubscribe,
   status and events *)

InitBalances == srvInit /\ nsIdle /\ selIdle /\ feeIdle

BalancesConnect ==
    /\ Idle
    /\ \E network \in Networks : handleConnect(Undefined, network, Undefined, "none", "none")

BalancesSubscribe ==
    /\ Idle
    /\ \E addresses \in SUBSET SubAddrs, subscribeOk \in BOOLEAN :
           \E replies \in [AddressesToMonitor(Default, addresses) -> Replies] :
               handleSubscribeBalance(Undefined, addresses, FALSE, replies, subscribeOk)

BalancesUnsubscribe ==
    /\ Idle
    /\ \E addresses \in SUBSET SubAddrs, unsubscribeOk \in BOOLEAN :
           handleUnsubscribeBalance(Undefined, addresses, unsubscribeOk)

BalancesStatus ==
    /\ Idle
    /\ \E reply \in Replies :
           handleGetSubscriptionStatus(Undefined, [a \in Monitored(Default) |-> reply])

BalancesUtxosChanged ==
    /\ Idle
    /\ \E sdk \in 1..MaxSdks, change \in {"added", "removed"} :
           DeliverUtxosChanged(sdk, change, addrA)

BalancesBalanceChanged ==
    /\ Idle
    /\ \E sdk \in 1..MaxSdks : DeliverBalanceChanged(sdk, addrA)

NextBalances ==
    \/ BalancesConnect
    \/ BalancesSubscribe
    \/ BalancesUnsubscribe
    \/ BalancesStatus
    \/ BalancesUtxosChanged
    \/ BalancesBalanceChanged
    \/ Respond

SpecBalances == InitBalances /\ [][NextBalances]_vars

----------------------------------------------------------------------------
(* Specification of connects and wallet creations that interleave at awaits *)

InitRace == srvInit /\ nsIdle /\ selIdle /\ feeIdle

RaceConnect ==
    \E t \in 1..MaxTasks, sessionId \in LifeSessionIds, network \in Networks :
        ConnectStart(t, sessionId, network)

RaceDisposed == \E t \in 1..MaxTasks : ConnectDisposed(t, "none")

RaceInitialized == \E t \in 1..MaxTasks : ConnectInitialized(t, "none")

RaceCreateWallet ==
    \E t \in 1..MaxTasks, sessionId \in LifeSessionIds : CreateWalletStart(t, sessionId)

RaceWalletConnected == \E t \in 1..MaxTasks : CreateWalletConnected(t)

RaceReturn == \E t \in 1..MaxTasks : TaskReturn(t)

NextRace ==
    \/ RaceConnect
    \/ RaceDisposed
    \/ RaceInitialized
    \/ RaceCreateWallet
    \/ RaceWalletConnected
    \/ RaceReturn

SpecRace == InitRace /\ [][NextRace]_vars

----------------------------------------------------------------------------
(* Specification of two sessions: interleaving connects, requests and events *)

InitFrame == srvInit /\ nsIdle /\ selIdle /\ feeIdle

\* The result of a handler that has ended is returned before anything else
\* runs (the dispatcher awaits the handler); a request is read, an await
\* settles or an event arrives when no request is being answered.
Ready == Idle /\ \A t \in 1..MaxTasks : tasks[t].pc # "done"

\* A call may start in the first free slot, for a session that has no call
\* in flight: the calls that interleave here are calls of distinct sessions.
FreeSlot(t, sessionId) ==
    /\ \A u \in 1..(t - 1) : tasks[u].pc # "idle"
    /\ \A u \in 1..MaxTasks : tasks[u].pc = "idle" \/ tasks[u].key # DefaultParam(sessionId)

FrameConnect ==
    /\ Ready
    /\ \E t \in 1..MaxTasks, sessionId \in LifeSessionIds :
        /\ FreeSlot(t, sessionId)
        /\ ConnectStart(t, sessionId, "mainnet")

FrameCreateWallet ==
    /\ Ready
    /\ \E t \in 1..MaxTasks, sessionId \in LifeSessionIds :
        /\ FreeSlot(t, sessionId)
        /\ CreateWalletStart(t, sessionId)

FrameDisposed == Ready /\ \E t \in 1..MaxTasks : ConnectDisposed(t, "none")

FrameInitialized == Ready /\ \E t \in 1..MaxTasks : ConnectInitialized(t, "none")

FrameWalletConnected == Ready /\ \E t \in 1..MaxTasks : CreateWalletConnected(t)

FrameReturn == \E t \in 1..MaxTasks : TaskReturn(t)

FrameSubscribe ==
    /\ Ready
    /\ \E sessionId \in LifeSessionIds :
           handleSubscribeBalance(sessionId, {addrA}, FALSE, [a \in {addrA} |-> 100], TRUE)

FrameUnsubscribe ==
    /\ Ready
    /\ \E sessionId \in LifeSessionIds :
           handleUnsubscribeBalance(sessionId, {}, TRUE)

FrameStatus ==
    /\ Ready
    /\ \E sessionId \in LifeSessionIds :
           handleGetSubscriptionStatus(sessionId,
                                       [a \in Monitored(DefaultParam(sessionId)) |-> 100])

FrameSend ==
    /\ Ready
    /\ \E sessionId \in LifeSessionIds :
           handleSendTransaction(sessionId, NoAddress, One, NoFeePriority, Undefined,
                                 Undefined, WillingEngine)

FrameUtxosChanged ==
    /\ Ready
    /\ \E sdk \in 1..MaxSdks : DeliverUtxosChanged(sdk, "added", addrA)

FrameBalanceChanged ==
    /\ Ready
    /\ \E sdk \in 1..MaxSdks : DeliverBalanceChanged(sdk, addrA)

NextFrame ==
    \/ FrameConnect
    \/ FrameDisposed
    \/ FrameInitialized
    \/ FrameCreateWallet
    \/ FrameWalletConnected
    \/ FrameReturn
    \/ FrameSubscribe
    \/ FrameUnsubscribe
    \/ FrameStatus
    \/ FrameSend
    \/ FrameUtxosChanged
    \/ FrameBalanceChanged
    \/ Respond

SpecFrame == InitFrame /\ [][NextFrame]_vars

----------------------------------------------------------------------------
(* Specification of the send and fee commands of the default session *)

MaxAmountLen == 3     \* characters of an amount argument
MaxBaseFee   == 3     \* sompi of the provisional base fee estimate

AmountAlphabet == {"0", "1", ".", "-", "a"}
AmountInputs   == Strings(AmountAlphabet, MaxAmountLen) \cup {Undefined}
FewAmounts     == {One, <<"0", ".", "1">>}

\* Small base fees, and the base fee 1000 of the fee scenarios.
BaseFees == (0..MaxBaseFee) \cup {1000}

FeePriorities   == {NoFeePriority, "low", "normal", "high", "urgent"}
CustomFeeInputs == {<<"0">>, <<"0", ".", "2">>, <<"1">>, <<"-", "1">>, <<"a">>}
LegacyFeeInputs == {<<"0", ".", "1">>, <<"a">>, <<"0">>, <<"0", ".", "0">>}

\* feePriority, customFee, priorityFee as a caller combines them.
FeeArguments ==
    {<<p, Undefined, Undefined>> : p \in FeePriorities}
    \cup {<<NoFeePriority, c, Undefined>> : c \in CustomFeeInputs}
    \cup {<<NoFeePriority, Undefined, l>> : l \in LegacyFeeInputs}
    \cup {<<"high", c, l>> : c \in {Undefined, One}, l \in {<<"0">>, <<"0", ".", "1">>}}

Balances == {0, 2000}

\* What the Engine does with a built transaction.
EngineAnswers == {<<FALSE, FALSE>>, <<TRUE, FALSE>>, <<TRUE, TRUE>>}

\* The addresses a caller may name as sender: somebody else's, or one of a
\* wallet created so far.
FromInputs ==
    {NoAddress, addrA}
    \cup {getReceiveAddress(wallets[w], i) : w \in 1..Len(wallets), i \in 0..1}

InitSend == srvInit /\ nsIdle /\ selIdle /\ feeIdle

SendConnect ==
    /\ Idle
    /\ \E initFailure \in {"none", "connect"} :
           handleConnect(Undefined, "testnet-10", Undefined, initFailure, "none")

SendCreateWallet ==
    /\ Idle
    /\ \E kind \in {"generate", "privateKey"}, walletOk \in BOOLEAN :
           handleCreateWallet(Undefined, kind, IF kind = "generate" THEN 0 ELSE 1,
                              "none", walletOk)

\* Every amount with a willing Engine and the default or a custom fee; a few
\* amounts with every fee argument, sender and Engine answer.
SendTransaction ==
    /\ Idle
    /\ \/ \E amount \in AmountInputs, customFee \in {Undefined, One} :
              handleSendTransaction(Undefined, NoAddress, amount, NoFeePriority, customFee,
                                    Undefined, WillingEngine)
       \/ \E from \in FromInputs, amount \in FewAmounts, fee \in FeeArguments,
             hasUtxos \in BOOLEAN, baseFee \in BaseFees, answer \in EngineAnswers :
              handleSendTransaction(Undefined, from, amount, fee[1], fee[2], fee[3],
                                    Engine(hasUtxos, baseFee, 0, answer[1], answer[2]))

SendFromWallet ==
    /\ Idle
    /\ \/ \E amount \in AmountInputs, customFee \in {Undefined, One} :
              handleSendFromWallet(Undefined, 0, amount, NoFeePriority, customFee, WillingEngine)
       \/ \E addressIndex \in 0..1, amount \in FewAmounts, fee \in FeeArguments,
             hasUtxos \in BOOLEAN, baseFee \in BaseFees, balance \in Balances,
             answer \in EngineAnswers :
              handleSendFromWallet(Undefined, addressIndex, amount, fee[1], fee[2],
                                   Engine(hasUtxos, baseFee, balance, answer[1], answer[2]))

SendFeeRecommendations ==
    /\ Idle
    /\ \/ \E amount \in AmountInputs :
              handleGetFeeRecommendations(Undefined, addrA, amount, WillingEngine)
       \/ \E amount \in FewAmounts, hasUtxos \in BOOLEAN, baseFee \in BaseFees :
              handleGetFeeRecommendations(Undefined, addrA, amount,
                                          Engine(hasUtxos, baseFee, 0, TRUE, TRUE))

NextSend ==
    \/ SendConnect
    \/ SendCreateWallet
    \/ SendTransaction
    \/ SendFromWallet
    \/ SendFeeRecommendations
    \/ Respond

SpecSend == InitSend /\ [][NextSend]_vars

----------------------------------------------------------------------------
(* C1, C2, C3 *)

\* The notifications of the event being handled that name an address.
NotificationsFor(address) ==
    {i \in 1..Len(notifications) : notifications[i].address = address}

\* The balance listeners of a session registered on an SDK, on any stream.
RegisteredListeners(sdk, key) ==
    {l \in UNION {sdks[sdk].eventListeners[e] : e \in Streams} :
        subs[l].sessionId = key}

\* C1: a balance notification for address A is emitted only if A is in the
\* current monitored set of the notified session when the event is handled.
C1_OnlyMonitoredNotified ==
    \A i \in 1..Len(notifications) :
        notifications[i].address \in Monitored(notifications[i].session)

\* C2: one UTXO-added event for a currently monitored address, on the
\* session's connection, produces exactly one notification for that address.
C2_ExactlyOneNotification ==
    \A key \in DOMAIN sdkInstances :
        (/\ req.op = "utxos-changed:added"
         /\ req.sdk = sdkInstances[key]
         /\ req.address \in Monitored(key))
        => Cardinality(NotificationsFor(req.address)) = 1

\* C3: after an unsubscribe that removes the last monitored address, no
\* balance listener of the session is registered on its connection and the
\* session has no subscription record.
C3_NoHandlerAfterLastUnsubscribe ==
    (/\ req.op = "kaspa_unsubscribe_balance"
     /\ res.status = "ok"
     /\ res.addresses # {}
     /\ Monitored(req.key) = {})
    => /\ req.key \notin DOMAIN subscriptionInstances
       /\ RegisteredListeners(req.sdk, req.key) = {}

----------------------------------------------------------------------------
(* C5 *)

IsBlank(s) == s = Undefined \/ \A i \in 1..Len(s) : s[i] \in Whitespace

\* t is s without its leading and trailing whitespace.
IsTrimOf(t, s) ==
    \E i, j \in 1..Len(s) :
        /\ i <= j
        /\ t = SubSeq(s, i, j)
        /\ s[i] \notin Whitespace /\ s[j] \notin Whitespace
        /\ \A k \in 1..(i - 1) : s[k] \in Whitespace
        /\ \A k \in (j + 1)..Len(s) : s[k] \in Whitespace

\* C5: normalizeSessionId returns 'default' for an absent, empty or
\* whitespace-only identifier, the trimmed identifier for every other input,
\* and normalizing its result again returns the same result.
C5_NormalizeCanonical ==
    nsDone =>
        /\ IsBlank(nsIn) => nsOut = Default
        /\ ~IsBlank(nsIn) => IsTrimOf(nsOut, nsIn)
        /\ nsTwice = nsOut

C5_Witness ==
    /\ nsDone
    /\ ~IsBlank(nsIn)
    /\ Head(nsIn) \in Whitespace
    /\ nsIn[Len(nsIn)] \in Whitespace
    /\ Len(nsOut) < Len(nsIn)

----------------------------------------------------------------------------
(* C8, C9 *)

Selected == selOut.selectedUtxos

SelectedIds == {Selected[i].id : i \in 1..Len(Selected)}

\* C8: on success totalAmount is the sum of the selected amounts, and
\* totalAmount = change + targetAmount + selectedCount * feePerUtxo, change >= 0.
C8_SelectionBalance ==
    selOut.status = "ok" =>
        /\ selOut.totalAmount = SumAmounts(Selected)
        /\ selOut.totalAmount = selOut.change + selTarget + Len(Selected) * selFee
        /\ selOut.change >= 0

C8_Witness ==
    /\ selOut.status = "ok"
    /\ Len(Selected) >= 2
    /\ selFee > 0
    /\ selOut.change > 0

\* The selection is a prefix of an amount-descending order of the list:
\* distinct entries of the list, amounts non-increasing, and every selected
\* amount at least every unselected amount.
IsDescendingPrefix ==
    /\ \A i \in 1..Len(Selected) :
           /\ Selected[i].id \in 1..Len(selUtxos)
           /\ selUtxos[Selected[i].id] = Selected[i]
    /\ \A i, j \in 1..Len(Selected) :
           /\ i # j => Selected[i].id # Selected[j].id
           /\ i < j => Selected[i].amount >= Selected[j].amount
    /\ \A i \in 1..Len(Selected) : \A u \in 1..Len(selUtxos) :
           u \notin SelectedIds => Selected[i].amount >= selUtxos[u].amount

\* The accumulated amount of the first k selected entries meets the threshold.
Meets(k) == SumAmounts(SubSeq(Selected, 1, k)) >= selTarget + k * selFee

\* C9 as claimed: the selection is the first k entries of the descending
\* order, k the smallest prefix length (0 included) that meets the threshold.
C9_AsClaimed ==
    selOut.status = "ok" =>
        /\ IsDescendingPrefix
        /\ Meets(Len(Selected))
        /\ \A k \in 0..(Len(Selected) - 1) : ~Meets(k)

\* C9 amended: the selection is the first k entries of the descending order,
\* k the smallest prefix length of at least 1 that meets the threshold (the
\* threshold is first tested after the first entry has been taken); for an
\* empty list the selection is empty.
C9_GreedyPrefix ==
    selOut.status = "ok" =>
        /\ IsDescendingPrefix
        /\ Meets(Len(Selected))
        /\ \A k \in 1..(Len(Selected) - 1) : ~Meets(k)
        /\ selUtxos # <<>> => Len(Selected) >= 1

C9_Witness ==
    /\ selOut.status = "ok"
    /\ Len(Selected) = 2
    /\ Len(selUtxos) = 3
    /\ selUtxos[1].amount < selUtxos[3].amount

----------------------------------------------------------------------------
(* C4 *)

SessionCommands ==
    {"kaspa_connect", "kaspa_create_wallet", "kaspa_get_balance",
     "kaspa_subscribe_balance", "kaspa_unsubscribe_balance",
     "kaspa_send_transaction", "kaspa_send_from_wallet",
     "kaspa_get_fee_recommendations"}

\* C4: every session-scoped command looks its session up under the normalized
\* identifier: the key it uses for the connection, wallet and subscription
\* tables is normalizeSessionId of the sessionId it was given ("", "   " and
\* no id act on "default", "  abc  " acts on "abc").
C4_LookupUnderNormalizedId ==
    req.op \in SessionCommands => req.key = normalizeSessionId(req.sessionId)

----------------------------------------------------------------------------
(* C6 *)

SendCommands == {"kaspa_send_transaction", "kaspa_send_from_wallet"}

\* A decimal numeral: an optional sign, then digits with at most one point and
\* at least one digit, and nothing else.
IsDecimalNumeral(t) ==
    LET body == IF t # <<>> /\ t[1] \in {"-", "+"} THEN Tail(t) ELSE t
    IN /\ \A i \in 1..Len(body) : body[i] \in DigitChars \cup {"."}
       /\ Cardinality({i \in 1..Len(body) : body[i] = "."}) <= 1
       /\ \E i \in 1..Len(body) : body[i] \in DigitChars

\* The amount argument is a number greater than zero.
IsPositiveAmount(amount) ==
    /\ amount # Undefined
    /\ IsDecimalNumeral(trim(amount))
    /\ trim(amount)[1] # "-"
    /\ \E i \in 1..Len(amount) : amount[i] \in DigitChars \ {"0"}

\* C6: for every amount that is non-numeric or not greater than zero,
\* send_transaction and send_from_wallet fail before any Ledger Engine
\* interaction is made.
C6_InvalidAmountNoEngine ==
    (req.op \in SendCommands /\ ~IsPositiveAmount(sendInfo.amount))
    => (res.status # "ok" /\ engineCalls = <<>>)

----------------------------------------------------------------------------
(* C7 *)

\* The request reached the Engine's generator.
GeneratorCalled == \E i \in 1..Len(engineCalls) : engineCalls[i] = "buildWithGenerator"

CustomFeeSend ==
    req.op \in SendCommands /\ sendInfo.feeKind = "custom" /\ GeneratorCalled

\* C7: in a custom-total-fee send, the priority fee passed to the generator is
\* customFee - baseFeeEstimate when customFee >= baseFeeEstimate and exactly 0
\* when customFee < baseFeeEstimate; it is never negative.
C7_BackSolvedPriorityFee ==
    CustomFeeSend =>
        /\ sendInfo.fee >= sendInfo.baseFee
              => sendInfo.generatorPriorityFee = sendInfo.fee - sendInfo.baseFee
        /\ sendInfo.fee < sendInfo.baseFee => sendInfo.generatorPriorityFee = 0
        /\ sendInfo.generatorPriorityFee >= 0

\* A custom fee below the estimate reached the generator.
C7_Witness ==
    /\ CustomFeeSend
    /\ sendInfo.fee < sendInfo.baseFee
    /\ sendInfo.fee > 0
    /\ sendInfo.generatorPriorityFee = 0

----------------------------------------------------------------------------
(* C10 *)

\* fee is the least integer that is at least half of baseFee.
IsCeilOfHalf(fee, baseFee) == 2 * fee >= baseFee /\ 2 * (fee - 1) < baseFee

IsTierFee(fee, baseFee, tier) ==
    CASE tier = "low"    -> IsCeilOfHalf(fee, baseFee)
      [] tier = "normal" -> fee = baseFee
      [] tier = "high"   -> fee = 2 * baseFee

TierSend ==
    /\ req.op \in SendCommands
    /\ sendInfo.feeKind = "tier"
    /\ sendInfo.feePriority \in {"low", "normal", "high"}
    /\ sendInfo.baseFee # None

Recommended ==
    req.op = "kaspa_get_fee_recommendations" /\ res.status = "ok"

\* C10: for a named-tier send and for fee recommendations, the tier fee is
\* ceil(baseFee * multiplier) with multiplier 0.5 for low, 1.0 for normal and
\* 2.0 for high.
C10_TierFeeIsCeiling ==
    /\ TierSend => IsTierFee(sendInfo.fee, sendInfo.baseFee, sendInfo.feePriority)
    /\ Recommended =>
          /\ IsTierFee(sendInfo.lowFee, sendInfo.baseFee, "low")
          /\ IsTierFee(sendInfo.normalFee, sendInfo.baseFee, "normal")
          /\ IsTierFee(sendInfo.highFee, sendInfo.baseFee, "high")

\* A low-tier send over an odd base fee, rounded up.
C10_Witness ==
    /\ TierSend
    /\ res.status = "ok"
    /\ sendInfo.feePriority = "low"
    /\ sendInfo.baseFee = 3
    /\ sendInfo.fee = 2


----------------------------------------------------------------------------
(* C11 *)

\* C11: the fee of a send result equals the sum of the amounts of the inputs
\* the signed, submitted transaction consumes minus the sum of its outputs.
C11_FeeIsInputsMinusOutputs ==
    feeOut.status = "ok" => feeOut.fee = feeOut.inputAmount - feeOut.outputAmount

----------------------------------------------------------------------------
(* C12, C14, C15, C16, C20: the life of a session *)

\* The connections opened for a session that are still open.
OpenConnections(key) ==
    {i \in 1..Len(sdks) : sdks[i].owner = key /\ IsOpen(sdks[i])}

\* C12: without concurrent requests a session never has two open connections
\* at the same time.
C12_OneOpenConnection ==
    \A i, j \in 1..Len(sdks) :
        (sdks[i].owner = sdks[j].owner /\ IsOpen(sdks[i]) /\ IsOpen(sdks[j])) => i = j

\* The request tore sessions down: a network switch, or the shutdown.
Teardown == req.op \in {"kaspa_connect", "SIGINT"} /\ releases # <<>>

TornDown == {releases[j].session : j \in 1..Len(releases)}

\* The position of the release of a resource of a session (0: none).
ReleasedAt(resource, key) ==
    IF \E j \in 1..Len(releases) : releases[j].resource = resource /\ releases[j].session = key
    THEN CHOOSE j \in 1..Len(releases) :
             releases[j].resource = resource /\ releases[j].session = key
    ELSE 0

\* The session holds subscription state: a record, or a registered handler.
HoldsSubscription(key) ==
    \/ key \in DOMAIN subscriptionInstances
    \/ \E i \in 1..Len(sdks), e \in Streams :
          sdks[i].owner = key /\ sdks[i].eventListeners[e] # {}

\* C14: a teardown releases the connection of a session, then its wallet,
\* then its balance-subscription state, whichever of them fails.
C14_TeardownOrder ==
    Teardown =>
        \A key \in TornDown :
            /\ ReleasedAt("wallet", key) # 0 =>
                   ReleasedAt("connection", key) <= ReleasedAt("wallet", key)
            /\ ~HoldsSubscription(key)

\* A release of the given kind was attempted for the object.
Attempted(log, resource, id) ==
    \E j \in 1..Len(log) : log[j].resource = resource /\ log[j].id = id

\* C15: the shutdown attempts the release of every connection and every
\* wallet of the tables, whichever releases throw, and leaves both tables
\* empty.
C15_ShutdownReleasesAll ==
    [][(~Exited /\ Exited') =>
          /\ \A key \in DOMAIN sdkInstances :
                 Attempted(releases', "connection", sdkInstances[key])
          /\ \A key \in DOMAIN walletInstances :
                 Attempted(releases', "wallet", walletInstances[key])
          /\ sdkInstances' = EmptyMap
          /\ walletInstances' = EmptyMap]_vars

\* A shutdown of two sessions with wallets in which the first release threw.
C15_Witness ==
    /\ Exited
    /\ Len(releases) = 4
    /\ ~releases[1].ok
    /\ releases[2].resource = "connection"
    /\ sdkInstances = EmptyMap /\ walletInstances = EmptyMap

\* The handler of a subscription record is registered on the connection the
\* session has now.
OnCurrentConnection(key) ==
    /\ key \in DOMAIN sdkInstances
    /\ subscriptionInstances[key] \in
           sdks[sdkInstances[key]].eventListeners["balance:changed"]

\* C16: after a completed network switch the session holds no subscription
\* record of the released connection, and the status reports no address
\* subscribed on it.
C16_NoStaleSubscription ==
    /\ (req.op = "kaspa_connect" /\ res.text = "Successfully connected"
           /\ req.key \in DOMAIN subscriptionInstances) => OnCurrentConnection(req.key)
    /\ (req.op = "kaspa_get_subscription_status" /\ req.sdk # 0
           /\ res.addresses # {}) => OnCurrentConnection(req.key)

\* What initialize() acquired has been released.
AllReleased(sdk) ==
    /\ sdk.rpcClient \in {"none", "released"}
    /\ sdk.managerProcessor \in {"none", "released"}
    /\ sdk.managerContext \in {"none", "released"}
    /\ sdk.utxoProcessor \in {"none", "released"}
    /\ sdk.utxoContext \in {"none", "released"}
    /\ sdk.eventListeners = NoListeners

\* C20: after dispose() completes, every resource initialize() acquired has
\* been released and no listener remains.
C20_DisposeReleasesAll ==
    \A j \in 1..Len(releases) :
        (releases[j].resource = "connection" /\ releases[j].ok)
            => AllReleased(sdks[releases[j].id])

----------------------------------------------------------------------------
(* C13 *)

\* No call of the session is suspended.
Quiescent(key) == \A t \in 1..MaxTasks : tasks[t].pc \in {"idle", "done"} \/ tasks[t].key # key

\* C13: after connects (and auto-connecting wallet creations) of a session
\* that interleaved at their awaits, every connection opened for the session
\* is the one stored in the registry or has been released.
C13_NoUnreferencedConnection ==
    \A i \in 1..Len(sdks) :
        (IsOpen(sdks[i]) /\ Quiescent(sdks[i].owner))
            => MapGet(sdkInstances, sdks[i].owner) = i

----------------------------------------------------------------------------
(* C17 *)

\* C17: the key set of the last-balance map of every subscription is its
\* monitored address set, and every entry is a balance (zero where the
\* snapshot query failed, never the failure itself), after any sequence of
\* subscribe and unsubscribe calls.
C17_LastBalancesCoverMonitored ==
    \A s \in 1..Len(subs) :
        /\ DOMAIN subs[s].lastBalances = subs[s].addresses
        /\ \A a \in subs[s].addresses : subs[s].lastBalances[a] \in Nat

\* An unsubscribe has just removed one of two monitored addresses of the
\* registered subscription, and the one that stays has the balance zero.
C17_Witness ==
    /\ req.op = "kaspa_unsubscribe_balance"
    /\ res.status = "ok"
    /\ res.addresses = {addrA}
    /\ MapGet(subscriptionInstances, req.key) # 0
    /\ subs[MapGet(subscriptionInstances, req.key)].addresses = {addrB}
    /\ subs[MapGet(subscriptionInstances, req.key)].lastBalances[addrB] = 0

----------------------------------------------------------------------------
(* C19 *)

\* The messages of a send rejected for its amount or for its `from` address.
CallerInputErrors ==
    {"Invalid amount: must be greater than 0", "Invalid amount format",
     "Failed to convert amount", "Address not found in wallet"}

\* C19: a send rejected because the amount is zero or malformed, or because
\* `from` is not an address of the wallet, is answered with the InvalidRequest
\* class, as a missing connection or wallet is.
C19_CallerInputIsInvalidRequest ==
    (req.op \in SendCommands /\ res.text \in CallerInputErrors)
        => res.status = "InvalidRequest"

----------------------------------------------------------------------------
(* C18 *)

\* The session keys of the two-session specification.
SessionKeys == {DefaultParam(id) : id \in LifeSessionIds}

\* The sessions a step acts for: the one of the request it answers and the
\* ones of the calls it resumes.
ActingKeys ==
    {req'.key} \cup UNION {{tasks[t].key, tasks'[t].key} :
                              t \in {u \in 1..MaxTasks : tasks'[u] # tasks[u]}}

\* The connection, wallet and subscription entries of a session, with the
\* objects they refer to, are the same before and after the step.
EntriesUnchanged(key) ==
    /\ MapGet(sdkInstances', key) = MapGet(sdkInstances, key)
    /\ MapGet(walletInstances', key) = MapGet(walletInstances, key)
    /\ MapGet(subscriptionInstances', key) = MapGet(subscriptionInstances, key)
    /\ MapGet(sdkInstances, key) # 0
           => sdks'[MapGet(sdkInstances, key)] = sdks[MapGet(sdkInstances, key)]
    /\ MapGet(walletInstances, key) # 0
           => wallets'[MapGet(walletInstances, key)] = wallets[MapGet(walletInstances, key)]
    /\ MapGet(subscriptionInstances, key) # 0
           => subs'[MapGet(subscriptionInstances, key)]
                  = subs[MapGet(subscriptionInstances, key)]

\* The request being answered is an event on the connection of an SDK.
IsEvent == req.op \in {"utxos-changed:added", "utxos-changed:removed", "stasis"}

\* Every notification of the event names the session of the connection.
NotifiesOwnSession ==
    IsEvent => \A i \in 1..Len(notifications) :
                   notifications[i].session = sdks[req.sdk].owner

\* A connect that has succeeded, with no other call of its session in
\* flight, has left an open connection registered under its own id.
RegisteredUnderOwnId ==
    \A t \in 1..MaxTasks :
        (/\ tasks[t].pc = "done"
         /\ tasks[t].op = "kaspa_connect"
         /\ tasks[t].status = "ok"
         /\ \A u \in 1..MaxTasks \ {t} : tasks[u].key # tasks[t].key)
        => /\ MapGet(sdkInstances, tasks[t].key) # 0
           /\ sdks[MapGet(sdkInstances, tasks[t].key)].owner = tasks[t].key
           /\ IsOpen(sdks[MapGet(sdkInstances, tasks[t].key)])
           /\ \A key \in DOMAIN sdkInstances \ {tasks[t].key} :
                  sdkInstances[key] # sdkInstances[tasks[t].key]

\* C18: a step for session s (connect, create-wallet, send, subscribe,
\* unsubscribe, status) leaves the connection, wallet and subscription
\* entries of every other session unchanged; an event on s's connection
\* produces notifications for s only; connects for two distinct session ids
\* that interleave both end registered, each under its own id.
C18_SessionsIndependent ==
    /\ [](NotifiesOwnSession /\ RegisteredUnderOwnId)
    /\ [][\A key \in SessionKeys \ ActingKeys : EntriesUnchanged(key)]_vars

\* The connect of the default session, which created its SDK after the
\* connect of session abc did, has ended registered while the other one is
\* still awaiting initialize; an event on the default session's connection
\* has been notified.
C18_Witness ==
    /\ tasks[1].pc = "initializing" /\ tasks[1].key # Default
    /\ MapGet(sdkInstances, Default) > tasks[1].sdk
    /\ req.op = "utxos-changed:added"
    /\ req.sdk = MapGet(sdkInstances, Default)
    /\ Len(notifications) > 0

----------------------------------------------------------------------------
(* C21 *)

\* The wallets imported from a single private key.
SingleKeyWallets == {w \in 1..Len(wallets) : wallets[w].kind = "privateKey"}

\* C21: on a wallet imported from a single private key, a receive address and
\* a receive key are derived for index 0 only, every other index fails, and a
\* probe over the indices 0, 1, 2, ... stops after index 0.
C21_SingleKeyIndexZeroOnly ==
    \A w \in SingleKeyWallets :
        /\ ~getReceiveAddressThrows(wallets[w], 0)
        /\ getReceivePrivateKey(wallets[w], 0).ok
        /\ \A i \in 1..9 :
               /\ getReceiveAddressThrows(wallets[w], i)
               /\ ~getReceivePrivateKey(wallets[w], i).ok
        /\ Len(ProbeReceiveAddresses(wallets[w], 0, 5)) = 1

----------------------------------------------------------------------------
(* C22 *)

\* C22: after an unsubscribe call has returned, with a result or with the
\* error of the Engine's unsubscribe call, no balance handler of the session
\* is registered on its connection for an empty monitored set.
C22_NoHandlerForEmptySet ==
    (/\ req.op = "kaspa_unsubscribe_balance"
     /\ res.status # "none"
     /\ req.sdk # 0)
    => \A l \in RegisteredListeners(req.sdk, req.key) : subs[l].addresses # {}

----------------------------------------------------------------------------
(* C23 *)

\* C23: in a named-tier send that reaches the generator, the provisional base
\* fee plus the priority fee handed to the generator is the tier's target
\* total fee ceil(baseFee * multiplier).
C23_TierTotalFee ==
    (TierSend /\ GeneratorCalled)
        => sendInfo.baseFee + sendInfo.generatorPriorityFee
               = TierFee(sendInfo.baseFee, sendInfo.feePriority)

----------------------------------------------------------------------------
(* C24 *)

\* The send fetched UTXOs and the generator returned transactions.
Built ==
    /\ feeUtxos # <<>>
    /\ buildWithGenerator(feeUtxos, feeAmount, feeCost, feeMaxInputs) # <<>>

----------------------------------------------------------------------------
(* C25 *)

\* The request being answered is a tool call that obtained the connection of
\* its session from the registry.
ObtainedConnection == ~Idle /\ ~IsEvent /\ req.op # "SIGINT" /\ req.sdk # 0

\* C25: the connection a request obtains from the registry has not been
\* disposed and is not being disposed, also while a network switch of the
\* session is suspended at an await.
C25_NoRequestOnReleasedConnection ==
    ObtainedConnection => ~sdks[req.sdk].disposed

----------------------------------------------------------------------------
(* C26 *)

\* The step answers an unsubscribe of a session that has a connection and a
\* subscription record.
Unsubscribes ==
    /\ Idle
    /\ req'.op = "kaspa_unsubscribe_balance"
    /\ req'.sdk # 0
    /\ MapGet(subscriptionInstances, req'.key) # 0

\* The effect of an unsubscribe on the record l that monitored `before`:
\* `target` is removed from the monitored set and from the last balances, the
\* rest is kept with its balances, and the Engine is asked once to drop
\* exactly `target`; with an empty target nothing changes, the Engine is not
\* called and the result is no error.
UnsubscribeEffect(l, before, target) ==
    /\ subs'[l].addresses = before \ target
    /\ DOMAIN subs'[l].lastBalances = DOMAIN subs[l].lastBalances \ target
    /\ \A a \in DOMAIN subs'[l].lastBalances :
           subs'[l].lastBalances[a] = subs[l].lastBalances[a]
    /\ \A m \in 1..Len(subs) : m # l => subs'[m] = subs[m]
    /\ IF target = {}
       THEN /\ engineCalls' = <<>>
            /\ res'.dropped = {}
            /\ res'.status = "ok"
            /\ UNCHANGED <<tables, heap>>
       ELSE /\ engineCalls' = <<"unsubscribeUtxosChanged">>
            /\ res'.dropped = target
            /\ res'.status = "ok" => res'.addresses = target

\* C26: unsubscribe(addresses) removes exactly addresses \cap monitored (the
\* whole monitored set when no addresses are given) from the monitored set
\* and the last-balance map, leaves the other addresses and balances as they
\* were, and asks the Engine to drop exactly the removed addresses; an empty
\* intersection changes nothing, calls no Engine and is no error.
C26_UnsubscribeRemovesIntersection ==
    [][Unsubscribes =>
          UnsubscribeEffect(subscriptionInstances[req'.key],
                            Monitored(req'.key),
                            IF req'.addresses = {} THEN Monitored(req'.key)
                            ELSE req'.addresses \cap Monitored(req'.key))]_vars

\* An unsubscribe of a monitored and an unmonitored address has removed the
\* monitored one and asked the Engine to drop that one only.
C26_Witness ==
    /\ req.op = "kaspa_unsubscribe_balance"
    /\ req.addresses = {addrA, addrB}
    /\ res.status = "ok"
    /\ res.dropped = {addrA}
    /\ engineCalls = <<"unsubscribeUtxosChanged">>

----------------------------------------------------------------------------
(* C27 *)

\* The step answers an event or a status request.
EventOrStatus ==
    Idle /\ req'.op \in {"utxos-changed:added", "utxos-changed:removed", "stasis",
                          "kaspa_get_subscription_status"}

\* Every record keeps the last balance of every address it goes on
\* monitoring.
SnapshotsKept ==
    \A l \in 1..Len(subs) :
        \A a \in subs[l].addresses \cap subs'[l].addresses :
            subs'[l].lastBalances[a] = subs[l].lastBalances[a]

\* The changes a status shows are the current balances against the snapshots.
StatusShowsDelta ==
    req'.op = "kaspa_get_subscription_status" =>
        /\ DOMAIN res'.changes = DOMAIN res'.balances
        /\ \A a \in DOMAIN res'.changes :
               res'.changes[a] = res'.balances[a] - subs[subscriptionInstances[req'.key]].lastBalances[a]

\* C27: an event and a status request change no monitored set and no
\* last-balance map; the last balance of an address stays the snapshot of the
\* subscribe that recorded it for as long as the address is monitored, and a
\* status shows the change of the current balance against that snapshot.
C27_SnapshotKeptUntilUnsubscribe ==
    [][/\ SnapshotsKept
       /\ EventOrStatus => (subs' = subs /\ subscriptionInstances' = subscriptionInstances)
       /\ Idle => StatusShowsDelta]_vars

\* A status shows a change of 100 for a monitored address whose snapshot is 0
\* and whose balance is 100 now.
C27_Witness ==
    /\ req.op = "kaspa_get_subscription_status"
    /\ addrA \in DOMAIN res.changes
    /\ res.balances[addrA] = 100
    /\ res.changes[addrA] = 100
    /\ subs[subscriptionInstances[req.key]].lastBalances[addrA] = 0

----------------------------------------------------------------------------
(* C28 *)

\* A subscribe has been answered with a result.
Subscribed == req.op = "kaspa_subscribe_balance" /\ res.status = "ok"

\* C28: a subscribe that returns a result monitors every requested address,
\* whichever balance queries failed: an address whose query failed has the
\* last balance 0, every other one the balance queried; a subscribe fails
\* only before its queries or at the Engine's subscribe call after them.
C28_SubscribeSurvivesFailedQueries ==
    /\ Subscribed =>
          LET info == subs[subscriptionInstances[req.key]]
          IN /\ info.addresses = res.addresses
             /\ req.addresses # {} => info.addresses = req.addresses
             /\ \A a \in info.addresses :
                    info.lastBalances[a] = IF a \in DOMAIN res.balances
                                           THEN res.balances[a] ELSE 0
    /\ (req.op = "kaspa_subscribe_balance" /\ res.status = "InternalError"
           /\ engineCalls # <<>>)
          => engineCalls[Len(engineCalls)] = "subscribeUtxosChanged"

\* A subscribe to two addresses has succeeded although the query of one of
\* them failed; the other one has its queried balance.
C28_Witness ==
    /\ Subscribed
    /\ req.addresses = {addrA, addrB}
    /\ DOMAIN res.balances = {addrB}
    /\ res.balances[addrB] = 100
    /\ subs[subscriptionInstances[req.key]].lastBalances[addrA] = 0
    /\ subs[subscriptionInstances[req.key]].lastBalances[addrB] = 100

----------------------------------------------------------------------------
(* C29 *)

\* A send_transaction has looked for its sender key.
KeySearched == req.op = "kaspa_send_transaction" /\ sendInfo.probed # <<>>

\* The wallet of the request has a receive key at index i.
Derives(i) == getReceivePrivateKey(wallets[MapGet(walletInstances, req.key)], i).ok

\* The receive key at index i of the request's wallet has the address `from`.
MatchesFrom(i) ==
    /\ Derives(i)
    /\ toAddress(getReceivePrivateKey(wallets[MapGet(walletInstances, req.key)], i).key,
                 sdks[req.sdk].networkType) = req.address

\* The Engine calls that build or submit a transaction.
BuildOrSubmit == {"buildTransaction", "buildWithGenerator", "submitTransaction"}

\* The sender key is the one found, and it is the receive key at index i.
SignsWith(i) ==
    /\ sendInfo.keyFound
    /\ sendInfo.senderKey
           = getReceivePrivateKey(wallets[MapGet(walletInstances, req.key)], i).key

\* The probe went through the indices 0, 1, ... in order, past keys that do
\* not match only, and stopped at a match, at a failed derivation or after
\* index 9.
ProbedInOrder ==
    /\ Len(sendInfo.probed) <= 10
    /\ \A j \in 1..Len(sendInfo.probed) : sendInfo.probed[j] = j - 1
    /\ \A j \in 1..(Len(sendInfo.probed) - 1) : Derives(j - 1) /\ ~MatchesFrom(j - 1)
    /\ Len(sendInfo.probed) < 10
          => \/ ~Derives(Len(sendInfo.probed) - 1)
             \/ MatchesFrom(Len(sendInfo.probed) - 1)

\* C29: with an explicit `from`, send_transaction probes the receive indices
\* 0 to 9 in increasing order, stops at the first index whose derivation
\* fails, signs with the key of the first index whose address equals `from`,
\* and fails without an Engine call that builds or submits a transaction if
\* no probed index matches; without `from` it signs with the key at index 0.
C29_SenderKeySearch ==
    KeySearched =>
        IF req.address = NoAddress
        THEN sendInfo.probed = <<0>> /\ SignsWith(0)
        ELSE /\ ProbedInOrder
             /\ sendInfo.keyFound <=> MatchesFrom(Len(sendInfo.probed) - 1)
             /\ sendInfo.keyFound => SignsWith(Len(sendInfo.probed) - 1)
             /\ ~sendInfo.keyFound
                   => /\ res.status = "InternalError"
                      /\ \A c \in 1..Len(engineCalls) : engineCalls[c] \notin BuildOrSubmit

----------------------------------------------------------------------------
(* C30 *)

\* A send_transaction has called sdk.sendTransaction.
SendCalled == req.op = "kaspa_send_transaction" /\ sendInfo.sent

\* The request carries a legacy priority fee that is not zero.
NonZeroLegacyFee ==
    /\ Truthy(sendInfo.priorityFee)
    /\ kasToSompi(trim(sendInfo.priorityFee)) # 0

\* C30: the fee of a send_transaction is the custom total fee if customFee is
\* given (the Engine call carries customTotalFee = customFee and no priority
\* fee, and no tier estimate is fetched), else a non-zero legacy priorityFee,
\* passed unchanged as the additive priority fee, else the fee of the named
\* tier; every send sets exactly one of customTotalFee and priorityFee.
C30_FeePrecedence ==
    SendCalled =>
        /\ (sendInfo.config.customTotalFee = None) # (sendInfo.config.priorityFee = None)
        /\ IF Truthy(sendInfo.customFee)
           THEN /\ sendInfo.config.customTotalFee = ParseCustomFee(sendInfo.customFee).sompi
                /\ sendInfo.config.priorityFee = None
                /\ sendInfo.feeCalls = <<>>
           ELSE IF NonZeroLegacyFee
           THEN /\ sendInfo.config.priorityFee = kasToSompi(trim(sendInfo.priorityFee))
                /\ sendInfo.config.customTotalFee = None
                /\ sendInfo.feeCalls = <<>>
           ELSE /\ sendInfo.feeKind = "tier"
                /\ sendInfo.feeCalls = <<"getUTXOs", "getFeeEstimate", "buildTransaction">>
                /\ sendInfo.config.priorityFee
                       = TierFee(sendInfo.baseFee, sendInfo.feePriority)
                /\ sendInfo.config.customTotalFee = None

----------------------------------------------------------------------------
(* C31 *)

\* The sum of the amounts of the entries of the list at the positions in S.
RECURSIVE AmountOf(_)
AmountOf(S) ==
    IF S = {} THEN 0
    ELSE LET i == CHOOSE x \in S : TRUE
         IN selUtxos[i].amount + AmountOf(S \ {i})

\* The accumulated amount of the first k entries of an amount-descending
\* order of the list: the largest amount k entries of the list can have.
DescendingPrefixAmount(k) ==
    CHOOSE m \in {AmountOf(S) : S \in {T \in SUBSET (1..Len(selUtxos)) : Cardinality(T) = k}} :
        \A S \in {T \in SUBSET (1..Len(selUtxos)) : Cardinality(T) = k} : AmountOf(S) <= m

\* Some prefix of length 1..n of the descending order covers the target and
\* its fee allowance.
SomePrefixCovers ==
    \E k \in 1..Len(selUtxos) : DescendingPrefixAmount(k) >= selTarget + k * selFee

\* C31: selectUTXOs fails with insufficient funds if and only if no prefix of
\* length 1..n of the amount-descending order accumulates at least
\* targetAmount + k * feePerUtxo (for an empty list: if and only if
\* targetAmount > 0), and a failure returns no selection.
C31_InsufficientIffNoPrefix ==
    selOut.status # "none" =>
        /\ selOut.status \in {"ok", "InsufficientFunds"}
        /\ selUtxos # <<>> => (selOut.status = "InsufficientFunds" <=> ~SomePrefixCovers)
        /\ selUtxos = <<>> => (selOut.status = "InsufficientFunds" <=> selTarget > 0)
        /\ selOut.status = "InsufficientFunds" => selOut.selectedUtxos = <<>>

\* A selection has failed on the fee allowances alone: the amounts of the
\* list cover the target, the whole list is short by less than its allowances.
C31_Witness ==
    /\ selOut.status = "InsufficientFunds"
    /\ Len(selUtxos) >= 2
    /\ SumAmounts(selUtxos) >= selTarget
    /\ selFee > 0

----------------------------------------------------------------------------
(* C32 *)

\* The commands that need a connection and open none.
ConnectionCommands ==
    {"kaspa_get_balance", "kaspa_send_transaction", "kaspa_send_from_wallet",
     "kaspa_estimate_fee", "kaspa_subscribe_balance", "kaspa_unsubscribe_balance"}

\* A connection is stored for the session the identifier names.
HasConnection(sessionIdArg) ==
    \E key \in DOMAIN sdkInstances :
        normalizeSessionId(key) = normalizeSessionId(sessionIdArg)

\* The step is one of these commands, on a session without a connection.
WithoutConnection ==
    /\ Idle
    /\ req'.op \in ConnectionCommands
    /\ ~HasConnection(req'.sessionId)

\* C32: get_balance, send_transaction, send_from_wallet, estimate_fee,
\* subscribe and unsubscribe on a session that has no connection fail with
\* InvalidRequest, reach no Engine call and leave the connection, wallet and
\* subscription tables and everything they hold unchanged.
C32_NoConnectionIsInvalidRequest ==
    [][WithoutConnection =>
           /\ res'.status = "InvalidRequest"
           /\ engineCalls' = <<>>
           /\ UNCHANGED <<tables, heap>>]_vars

\* While another session holds a connection, a wallet and a subscription, a
\* subscribe on a session without a connection has been refused.
C32_Witness ==
    /\ req.op = "kaspa_subscribe_balance"
    /\ res.status = "InvalidRequest"
    /\ ~HasConnection(req.sessionId)
    /\ DOMAIN sdkInstances # {}
    /\ DOMAIN walletInstances # {}
    /\ DOMAIN subscriptionInstances # {}

----------------------------------------------------------------------------
(* C33 *)

\* SIGINT has arrived.
ShuttingDown == \E t \in 1..MaxTasks : tasks[t].op = "SIGINT"

\* cleanup has cleared both tables and the process has exited.
ShutDown == Exited /\ sdkInstances = EmptyMap /\ walletInstances = EmptyMap

\* C33: if every awaited release returns or throws in the end, a shutdown
\* reaches the point where both session tables are cleared and the process
\* exits, however many releases throw.
C33_ShutdownTerminates == ShuttingDown ~> ShutDown

\* A shutdown has ended after the releases of two connections, one of which
\* threw.
C33_Witness ==
    /\ ShutDown
    /\ tasks[1].pc = "exited"
    /\ tasks[1].status = "threw"
    /\ Cardinality({i \in 1..Len(sdks) : sdks[i].disposed}) >= 2
    /\ \E i \in 1..Len(wallets) : wallets[i].disposed

----------------------------------------------------------------------------
(* C34 *)

\* The last of the first n calls that was an on or an off of the handler for
\* the event ("never": there was none).
RECURSIVE LastRegistration(_, _, _)
LastRegistration(n, event, handler) ==
    IF n = 0 THEN "never"
    ELSE IF /\ listenerCalls[n].op \in {"on", "off"}
            /\ listenerCalls[n].event = event
            /\ listenerCalls[n].handler = handler
    THEN listenerCalls[n].op
    ELSE LastRegistration(n - 1, event, handler)

\* How many times a handler occurs among the handlers called.
TimesCalled(called, handler) ==
    Cardinality({j \in 1..Len(called) : called[j] = handler})

\* The registry as it was before the n-th call.
RegistryBefore(n) == IF n = 1 THEN NoListeners ELSE listenerCalls[n - 1].after

\* The last two calls were on(e, h) and off(e, h) for a handler that was not
\* registered for the event before them.
OnThenOff ==
    /\ Len(listenerCalls) >= 2
    /\ listenerCalls[Len(listenerCalls) - 1].op = "on"
    /\ listenerCalls[Len(listenerCalls)].op = "off"
    /\ listenerCalls[Len(listenerCalls)].event = listenerCalls[Len(listenerCalls) - 1].event
    /\ listenerCalls[Len(listenerCalls)].handler = listenerCalls[Len(listenerCalls) - 1].handler
    /\ listenerCalls[Len(listenerCalls)].handler
           \notin RegistryBefore(Len(listenerCalls) - 1)[listenerCalls[Len(listenerCalls)].event]

----------------------------------------------------------------------------
(* C35 *)

\* C35: whatever connects and wallet creations interleave at their awaits, a
\* session's stored wallet was created for the network of the session's
\* stored connection.
C35_WalletOnConnectionNetwork ==
    \A key \in DOMAIN walletInstances \cap DOMAIN sdkInstances :
        wallets[walletInstances[key]].networkType
            = sdks[sdkInstances[key]].networkType

----------------------------------------------------------------------------
(* C36 *)

\* A connect is answered that changes the network of a session which had a
\* connection and a wallet.
SwitchedWithWallet ==
    /\ Idle
    /\ req'.op = "kaspa_connect"
    /\ res'.status = "ok"
    /\ req'.key \in DOMAIN sdkInstances
    /\ req'.key \in DOMAIN walletInstances
    /\ sdkInstances'[req'.key] # sdkInstances[req'.key]

\* C36: after a successful network switch on a session that had a wallet, the
\* session has a wallet of the same key material as before (the same mnemonic
\* or the same imported private key), created for the new network.
C36_SwitchKeepsKeyMaterial ==
    [][SwitchedWithWallet =>
          /\ req'.key \in DOMAIN walletInstances'
          /\ wallets'[walletInstances'[req'.key]].kind
                 = wallets[walletInstances[req'.key]].kind
          /\ wallets'[walletInstances'[req'.key]].material
                 = wallets[walletInstances[req'.key]].material
          /\ wallets'[walletInstances'[req'.key]].networkType
                 = sdks'[sdkInstances'[req'.key]].networkType]_vars

----------------------------------------------------------------------------
(* C38 *)

WalletCommands == {"kaspa_create_wallet", "kaspa_setup_preconfigured_wallet"}

\* A create-wallet or setup-preconfigured-wallet call on a session with a
\* connection fails in its wallet part.
WalletCallFailed ==
    /\ Idle
    /\ req'.op \in WalletCommands
    /\ res'.status = "InternalError"

\* C38: a create-wallet or setup-preconfigured-wallet that fails constructing
\* the new wallet leaves the session's wallet table entry as it was, and the
\* wallet not disposed.
C38_FailedCreateKeepsWallet ==
    [][WalletCallFailed =>
          /\ walletInstances' = walletInstances
          /\ wallets' = wallets]_vars

----------------------------------------------------------------------------
(* C37 *)

\* C37: whatever connects, wallet creations and wallet set-ups interleave, a
\* session that has a stored wallet has a stored connection: the keys of the
\* wallet table are keys of the connection table.
C37_WalletKeysAreConnectionKeys ==
    DOMAIN walletInstances \subseteq DOMAIN sdkInstances

\* A wallet is stored for a session while a connect of that session, started
\* before the wallet was made, waits for its new connection.
C37_Witness ==
    \E t \in 1..MaxTasks :
        /\ tasks[t].pc = "initializing"
        /\ tasks[t].op = "kaspa_connect"
        /\ tasks[t].key \in DOMAIN walletInstances
        /\ tasks[t].existingWallet # walletInstances[tasks[t].key]

----------------------------------------------------------------------------
(* C39 *)

\* A subscribe is answered whose address subscription the Engine refused.
EngineSubscribeFailed ==
    /\ Idle
    /\ req'.op = "kaspa_subscribe_balance"
    /\ Len(engineCalls') > 0
    /\ engineCalls'[Len(engineCalls')] = "subscribeUtxosChanged"
    /\ res'.status # "ok"

\* C39: a subscribe whose Engine address subscription fails is answered with
\* an error and leaves no trace in the session: the handlers registered on
\* the connection and the session's subscription record are what they were
\* before the call.
C39_FailedSubscribeLeavesNoTrace ==
    [][EngineSubscribeFailed =>
          /\ res'.status = "InternalError"
          /\ sdks'[req'.sdk].eventListeners = sdks[req'.sdk].eventListeners
          /\ sdks'[req'.sdk].utxosChangedHandlers = sdks[req'.sdk].utxosChangedHandlers
          /\ subscriptionInstances' = subscriptionInstances
          /\ subs' = subs]_vars

\* A session that holds a subscription has had a second subscribe refused by
\* the Engine.
C39_Witness ==
    /\ req.op = "kaspa_subscribe_balance"
    /\ res.status = "InternalError"
    /\ Len(engineCalls) > 0
    /\ engineCalls[Len(engineCalls)] = "subscribeUtxosChanged"
    /\ req.key \in DOMAIN subscriptionInstances

----------------------------------------------------------------------------
(* C40 *)

\* A connect is answered for the network the session is connected to.
ConnectToSameNetwork ==
    /\ Idle
    /\ req'.op = "kaspa_connect"
    /\ req'.key \in DOMAIN sdkInstances
    /\ sdks[sdkInstances[req'.key]].networkType = req'.network

\* C40: a connect to the network the session is already connected to, with
\* whatever rpcUrl, succeeds as a no-op: nothing is released, the Engine is
\* not called, no connection is made, and the session's connection, wallet
\* and subscription are unchanged.
C40_SameNetworkConnectIsNoOp ==
    [][ConnectToSameNetwork =>
          /\ res'.status = "ok"
          /\ releases' = <<>>
          /\ engineCalls' = <<>>
          /\ UNCHANGED <<tables, heap>>]_vars

\* A session with a wallet and a subscription, connected through one RPC URL,
\* has been asked to connect to the same network through another.
C40_Witness ==
    /\ req.op = "kaspa_connect"
    /\ res.status = "ok"
    /\ req.key \in DOMAIN sdkInstances
    /\ req.key \in DOMAIN walletInstances
    /\ req.key \in DOMAIN subscriptionInstances
    /\ sdks[sdkInstances[req.key]].networkType = req.network
    /\ req.rpcUrl # Undefined
    /\ sdks[sdkInstances[req.key]].rpcUrl # Undefined
    /\ sdks[sdkInstances[req.key]].rpcUrl # req.rpcUrl
    /\ Len(sdks) = 1

====
